---- MODULE Spec2Model ----
(***************************************************************************)
(* Model of the resource decoding pipeline of klient/k8s/resources         *)
(* (decoder.go): file resolution, multi-document decoding, patch chains    *)
(* and handler dispatch.                                                   *)
(*                                                                         *)
(* Strings are tuples of one-character strings so that prefix, suffix and  *)
(* byte-wise ordering are computed rather than assumed.  A path is a tuple *)
(* of path components.                                                     *)
(***************************************************************************)
EXTENDS Integers, Sequences, FiniteSets, TLC

VARIABLES
    pc,         \* position of the running call
    op,         \* the public operation that was called
    patches,    \* the patches ...MutateFunc argument
    base,       \* the obj argument of the known-type decoders
    dirNames,   \* names of the regular files in directory "d"
    path,       \* the filepath / directory argument
    files,      \* result list of listResourceFiles
    listErr,    \* error result of listResourceFiles
    fileIdx,    \* number of files the range loop has finished
    opened,     \* files opened so far, in order of os.Open
    closed,     \* files closed so far
    cur,        \* the reader being decoded: a file path, or Manifest
    eof,        \* readers that reported io.EOF
    o,          \* the objects slice local to DecodeAll / DecodeObjects
    objects,    \* the objects slice local to DecodeAllFiles
    hIdx,       \* number of elements of o the handler loop has visited
    decoded,    \* log: one entry per document handed to a type resolver
    hcalls,     \* log: one entry per handlerFn invocation
    herrAt,     \* index of the handlerFn invocation that returned an error
    oErr,       \* the error DecodeAll returned to the directory decoder
    result,     \* what the call returned
    trailing,   \* what follows the first document of the input of Decode
    handlerFn,  \* the HandlerFunc argument of DecodeEach / DecodeEachFile
    run,        \* 1, or 2 when the same call is made a second time
    replay,     \* the documents the first run read
    ctx,        \* the context given to DecodeEach / DecodeEachFile
    cluster,    \* the objects the Resource Client holds, by kind/name/namespace
    clientLog,  \* log: one entry per call of the Resource Client
    hseen,      \* log: the objects a caller-written handler was invoked with
    mseen,      \* log: the errors errorMatcher was consulted on
    hobj,       \* the object a handler under test was invoked with
    hret,       \* the error a handler under test returned
    target,     \* the object a MutateFunc under test was applied to
    patch,      \* the MutateFunc under test
    patched     \* the object and maps after the MutateFunc under test ran

vars == <<pc, op, patches, base, dirNames, path, files, listErr,
          fileIdx, opened, closed, cur, eof, o, objects, hIdx,
          decoded, hcalls, herrAt, oErr, result,
          trailing, handlerFn, run, replay, ctx, cluster, clientLog, hseen, mseen,
          hobj, hret, target, patch, patched>>

\* the variables of the decoders, pc apart
dvars == <<op, patches, base, dirNames, path, files, listErr,
           fileIdx, opened, closed, cur, eof, o, objects, hIdx,
           decoded, hcalls, herrAt, oErr, result>>

\* the variables of the Resource Client and of the handlers
hvars == <<cluster, clientLog, hseen, mseen, hobj, hret>>

\* the variables of a MutateFunc applied on its own
pvars == <<target, patch, patched>>

----------------------------------------------------------------------------
(* Bounds *)

\* documents read by one call, over all its readers
MaxDocs == 4

----------------------------------------------------------------------------
(* Strings *)

Code ==
    "." :> 46 @@ "/" :> 47 @@ "a" :> 97 @@ "b" :> 98 @@ "c" :> 99 @@
    "d" :> 100 @@ "j" :> 106 @@ "l" :> 108 @@ "m" :> 109 @@ "n" :> 110 @@
    "o" :> 111 @@ "s" :> 115 @@ "t" :> 116 @@ "x" :> 120 @@ "y" :> 121

HasPrefix(s, p) ==
    /\ Len(p) <= Len(s)
    /\ SubSeq(s, 1, Len(p)) = p

HasSuffix(s, x) ==
    /\ Len(x) <= Len(s)
    /\ SubSeq(s, Len(s) - Len(x) + 1, Len(s)) = x

RECURSIVE StrLess(_, _)
\* byte-wise s < t, the order of sort.Strings
StrLess(s, t) ==
    IF t = <<>> THEN FALSE
    ELSE IF s = <<>> THEN TRUE
    ELSE IF Code[Head(s)] # Code[Head(t)] THEN Code[Head(s)] < Code[Head(t)]
    ELSE StrLess(Tail(s), Tail(t))

RECURSIVE Join(_)
\* filepath.Join of the components of a path: the path as one string
Join(p) ==
    IF p = <<>> THEN <<".">>
    ELSE IF Len(p) = 1 THEN p[1]
    ELSE Join(SubSeq(p, 1, Len(p) - 1)) \o <<"/">> \o p[Len(p)]

PathLess(p, q) == StrLess(Join(p), Join(q))

----------------------------------------------------------------------------
(* The file system *)

ExtYaml == <<".", "y", "a", "m", "l">>
ExtYml  == <<".", "y", "m", "l">>
ExtJson == <<".", "j", "s", "o", "n">>

DirD    == <<"d">>
NoDir   == <<"n">>

AYaml   == <<"a">> \o ExtYaml
BYml    == <<"b">> \o ExtYml
CJson   == <<"c">> \o ExtJson
AaJson  == <<"a", "a">> \o ExtJson
BTxt    == <<"b", ".", "t", "x", "t">>

NameUniverse == {AYaml, BYml, CJson, AaJson, BTxt}

\* base names used as filename prefixes
BaseUniverse == {<<"a">>, <<"b">>, <<"a", ".", "y">>, <<"x">>}

PathUniverse ==
    {<<DirD>>, <<NoDir>>}
    \cup {<<DirD, n>> : n \in NameUniverse \cup BaseUniverse}
    \cup {<<NoDir, b>> : b \in BaseUniverse}
    \cup {<<DirD, AYaml, b>> : b \in {<<"x">>}}

\* os.Stat: the working directory holds the directory "d", which holds the
\* regular files names; nothing else exists
Stat(names, p) ==
    IF p = <<>> \/ p = <<DirD>> THEN "dir"
    ELSE IF Len(p) = 2 /\ p[1] = DirD /\ p[2] \in names THEN "file"
    ELSE "absent"

isDirectory(names, p) == Stat(names, p) = "dir"

\* the entries of a directory
Entries(names, dir) ==
    IF dir = <<>> THEN {DirD}
    ELSE IF dir = <<DirD>> THEN names
    ELSE {}

\* filepath.Match of a name against the pattern base*ext
Match(name, pre, ext) ==
    /\ Len(name) >= Len(pre) + Len(ext)
    /\ HasPrefix(name, pre)
    /\ HasSuffix(name, ext)

RECURSIVE Ascending(_)
\* the paths of a set as a sequence in ascending order
Ascending(S) ==
    IF S = {} THEN <<>>
    ELSE LET m == CHOOSE x \in S : \A y \in S \ {x} : PathLess(x, y)
         IN <<m>> \o Ascending(S \ {m})

Reverse(s) == [i \in 1..Len(s) |-> s[Len(s) + 1 - i]]

\* filepath.Glob(filepath.Join(directory, base + "*" + ext))
Glob(names, dir, pre, ext, order) ==
    LET hits == {dir \o <<n>> : n \in {e \in Entries(names, dir) : Match(e, pre, ext)}}
    IN IF order = "asc" THEN Ascending(hits) ELSE Reverse(Ascending(hits))

RECURSIVE InsertSorted(_, _)
InsertSorted(s, x) ==
    IF s = <<>> THEN <<x>>
    ELSE IF PathLess(x, Head(s)) THEN <<x>> \o s
    ELSE <<Head(s)>> \o InsertSorted(Tail(s), x)

RECURSIVE SortStrings(_)
\* sort.Strings
SortStrings(s) ==
    IF s = <<>> THEN <<>>
    ELSE InsertSorted(SortStrings(Tail(s)), Head(s))

\* listResourceFiles without the sort.Strings call
listResourceFilesUnsorted(names, directory, order) ==
    LET st == Stat(names, directory)
        pre == IF st = "absent" THEN directory[Len(directory)] ELSE <<>>
        dir == IF st = "absent" THEN SubSeq(directory, 1, Len(directory) - 1)
               ELSE directory
    IN IF st = "absent" /\ ~isDirectory(names, dir)
         THEN [files |-> <<>>, err |-> "ErrPrefixNotFound"]
       ELSE IF st = "file"
         THEN [files |-> <<>>, err |-> "ErrNotDirectory"]
       ELSE [files |-> Glob(names, dir, pre, ExtYaml, order)
                       \o (Glob(names, dir, pre, ExtYml, order)
                           \o Glob(names, dir, pre, ExtJson, order)),
             err |-> "nil"]

\* listResourceFiles without the branch that rejects a regular file
listResourceFilesAnyPath(names, directory, order) ==
    LET st == Stat(names, directory)
        pre == IF st = "absent" THEN directory[Len(directory)] ELSE <<>>
        dir == IF st = "absent" THEN SubSeq(directory, 1, Len(directory) - 1)
               ELSE directory
    IN IF st = "absent" /\ ~isDirectory(names, dir)
         THEN [files |-> <<>>, err |-> "ErrPrefixNotFound"]
       ELSE [files |-> SortStrings(Glob(names, dir, pre, ExtYaml, order)
                                   \o (Glob(names, dir, pre, ExtYml, order)
                                       \o Glob(names, dir, pre, ExtJson, order))),
             err |-> "nil"]

listResourceFiles(names, directory, order) ==
    LET st == Stat(names, directory)
        pre == IF st = "absent" THEN directory[Len(directory)] ELSE <<>>
        dir == IF st = "absent" THEN SubSeq(directory, 1, Len(directory) - 1)
               ELSE directory
    IN IF st = "absent" /\ ~isDirectory(names, dir)
         THEN [files |-> <<>>, err |-> "ErrPrefixNotFound"]
       ELSE IF st = "file"
         THEN [files |-> <<>>, err |-> "ErrNotDirectory"]
       ELSE [files |-> SortStrings(Glob(names, dir, pre, ExtYaml, order)
                                   \o (Glob(names, dir, pre, ExtYml, order)
                                       \o Glob(names, dir, pre, ExtJson, order))),
             err |-> "nil"]

----------------------------------------------------------------------------
(* Documents and objects *)

\* the reader passed as manifest io.Reader
Manifest == <<<<"m">>>>

NilMap == [isNil |-> TRUE, m |-> <<>>]
MapOf(f) == [isNil |-> FALSE, m |-> f]

\* m with the entries of overrides added or overwritten
Overlay(m, overrides) ==
    [x \in (DOMAIN m) \cup (DOMAIN overrides) |->
        IF x \in DOMAIN overrides THEN overrides[x] ELSE m[x]]

NoName == [src |-> <<>>, idx |-> 0]

\* the nil k8s.Object
NilObj ==
    [rep |-> "nil", kind |-> "", name |-> NoName, ns |-> "",
     labels |-> NilMap, annotations |-> NilMap, owner |-> "",
     spec |-> "", data |-> "", rv |-> ""]

\* kinds of well-formed documents: ConfigMap is registered in scheme.Scheme,
\* Widget is not registered, Status is registered with a Go type that has no
\* ObjectMeta
DocKinds == {"ConfigMap", "Widget", "Status"}

\* what a reader can yield next: a document, a malformed document, a read
\* error, or the end of the stream
ReadItems == DocKinds \cup {"Malformed", "ReadErr", "EOF"}

\* the idx-th document of reader src
Doc(kind, src, idx) ==
    [kind |-> kind, name |-> [src |-> src, idx |-> idx],
     spec |-> IF kind = "Widget" THEN "value" ELSE "",
     data |-> IF kind = "ConfigMap" THEN "foo" ELSE ""]

\* v1.ConfigMap{} and unstructured.Unstructured{} as base objects
BaseConfigMap == [NilObj EXCEPT !.rep = "typed"]
BaseUnstructured == [NilObj EXCEPT !.rep = "unstructured"]
Bases == {BaseConfigMap, BaseUnstructured}

\* the UniversalDeserializer of scheme.Scheme applied to one document.
\* "Mismatch" is a well-formed document of a registered kind whose content
\* does not fit the Go type of the kind
k8sDecoder(doc) ==
    IF doc.kind = "Malformed" THEN [obj |-> NilObj, err |-> "ErrDecode"]
    ELSE IF doc.kind = "Mismatch" THEN [obj |-> NilObj, err |-> "ErrMismatch"]
    ELSE IF doc.kind = "Widget" THEN [obj |-> NilObj, err |-> "ErrNotRegistered"]
    ELSE IF doc.kind = "Status"
      THEN [obj |-> [NilObj EXCEPT !.rep = "status", !.kind = doc.kind], err |-> "nil"]
    ELSE [obj |-> [NilObj EXCEPT !.rep = "typed", !.kind = doc.kind,
                                 !.name = doc.name, !.data = doc.data],
          err |-> "nil"]

\* yaml.Unmarshal of one document into an unstructured.Unstructured
UnmarshalUnstructured(doc) ==
    IF doc.kind = "Malformed" THEN [obj |-> NilObj, err |-> "ErrDecode"]
    ELSE [obj |-> [NilObj EXCEPT !.rep = "unstructured", !.kind = doc.kind,
                                 !.name = doc.name, !.spec = doc.spec,
                                 !.data = doc.data],
          err |-> "nil"]

\* decoder.Decode(obj) of a YAMLOrJSONDecoder into the object b: a typed
\* object takes the fields of the document its Go type has and keeps its own
\* value where the document has none, an unstructured object is replaced by
\* the whole document
DecodeInto(b, doc) ==
    IF doc.kind = "Malformed" THEN [obj |-> NilObj, err |-> "ErrDecode"]
    ELSE IF b.rep = "unstructured" THEN UnmarshalUnstructured(doc)
    ELSE [obj |-> [b EXCEPT !.kind = doc.kind, !.name = doc.name,
                            !.data = IF doc.data = "" THEN b.data ELSE doc.data],
          err |-> "nil"]

----------------------------------------------------------------------------
(* Patches *)

\* MutateLabels replacing the label map by the overrides
MutateLabelsReplace(overrides, obj) ==
    [obj |-> [obj EXCEPT !.labels = MapOf(overrides)],
     err |-> FALSE, overrides |-> overrides]

\* MutateLabels(overrides)(obj).  GetLabels of a typed object returns the
\* object's own map, so the writes of the loop reach the object; GetLabels
\* and SetLabels of an unstructured object copy the map.
MutateLabels(overrides, obj) ==
    LET got == obj.labels
        obj1 == IF got.isNil THEN [obj EXCEPT !.labels = MapOf(<<>>)] ELSE obj
        labels == Overlay(got.m, overrides)
    IN [obj |-> IF obj.rep = "typed" THEN [obj1 EXCEPT !.labels = MapOf(labels)]
                ELSE obj1,
        err |-> FALSE, overrides |-> overrides]

\* MutateAnnotations(overrides)(obj)
MutateAnnotations(overrides, obj) ==
    LET got == obj.annotations
        obj1 == IF got.isNil THEN [obj EXCEPT !.labels = MapOf(<<>>)] ELSE obj
        annotations == Overlay(got.m, overrides)
    IN [obj |-> IF obj.rep # "typed" THEN obj1
                ELSE IF got.isNil THEN [obj1 EXCEPT !.labels = MapOf(annotations)]
                ELSE [obj1 EXCEPT !.annotations = MapOf(annotations)],
        err |-> FALSE, overrides |-> overrides]

\* MutateNamespace(namespace)(obj)
MutateNamespace(namespace, obj) ==
    [obj |-> [obj EXCEPT !.ns = namespace], err |-> FALSE, overrides |-> <<>>]

\* MutateOwnerAnnotations(owner)(obj): controllerutil.SetOwnerReference
\* fails, leaving obj alone, when the owner cannot be referenced
MutateOwnerAnnotations(owner, obj) ==
    IF owner = "" THEN [obj |-> obj, err |-> TRUE, overrides |-> <<>>]
    ELSE [obj |-> [obj EXCEPT !.owner = owner], err |-> FALSE, overrides |-> <<>>]

PatchLabels(kv) == [fn |-> "MutateLabels", kv |-> kv, arg |-> ""]
PatchAnnotations(kv) == [fn |-> "MutateAnnotations", kv |-> kv, arg |-> ""]
PatchNamespace(ns) == [fn |-> "MutateNamespace", kv |-> <<>>, arg |-> ns]
PatchOwner(owner) == [fn |-> "MutateOwnerAnnotations", kv |-> <<>>, arg |-> owner]

\* one call patch(obj) of a MutateFunc
CallPatch(p, obj) ==
    IF p.fn = "MutateLabels" THEN MutateLabels(p.kv, obj)
    ELSE IF p.fn = "MutateAnnotations" THEN MutateAnnotations(p.kv, obj)
    ELSE IF p.fn = "MutateNamespace" THEN MutateNamespace(p.arg, obj)
    ELSE MutateOwnerAnnotations(p.arg, obj)

RECURSIVE PatchLoop(_, _, _, _, _)
\* for _, patch := range patches { patch(obj) }: the error a patch returns
\* is dropped.  applied lists the patches called, perr is the first that
\* returned an error (0: none)
PatchLoop(ps, i, obj, applied, perr) ==
    IF i > Len(ps) THEN [obj |-> obj, applied |-> applied, perr |-> perr]
    ELSE LET r == CallPatch(ps[i], obj)
         IN PatchLoop(ps, i + 1, r.obj, Append(applied, i),
                      IF perr = 0 /\ r.err THEN i ELSE perr)

ApplyPatches(ps, obj) == PatchLoop(ps, 1, obj, <<>>, 0)

L1 == PatchLabels("k" :> "v1")
L2 == PatchLabels("k" :> "v2")
An == PatchAnnotations("k" :> "v3")
Ns == PatchNamespace("ns")
OwnerOk == PatchOwner("owner")
OwnerBad == PatchOwner("")

\* the patch chains a call is given
Chains ==
    {<<>>, <<L1>>, <<L1, L2>>, <<L2, L1>>, <<Ns, L1>>, <<OwnerOk>>,
     <<OwnerBad, L1>>, <<L1, L2, An>>}

----------------------------------------------------------------------------
(* Single-document decoders *)

NoPatchLog == [applied |-> <<>>, perr |-> 0, fallback |-> FALSE]

\* DecodeAny without the fallback to unstructured.Unstructured
DecodeAnyNoFallback(doc, ps) ==
    LET r == k8sDecoder(doc)
    IN IF r.err # "nil"
         THEN [obj |-> NilObj, err |-> r.err, applied |-> <<>>, perr |-> 0,
               fallback |-> FALSE]
       ELSE IF r.obj.rep = "status"
         THEN [obj |-> NilObj, err |-> "nil", applied |-> <<>>, perr |-> 0,
               fallback |-> FALSE]
       ELSE LET a == ApplyPatches(ps, r.obj)
            IN [obj |-> a.obj, err |-> "nil", applied |-> a.applied, perr |-> a.perr,
                fallback |-> FALSE]

\* DecodeAny falling back to unstructured.Unstructured on every error of
\* the deserializer
DecodeAnyFallbackAlways(doc, ps) ==
    LET r == k8sDecoder(doc)
        u == UnmarshalUnstructured(doc)
        fallback == r.err # "nil"
        runtimeObj == IF fallback THEN u.obj ELSE r.obj
    IN IF fallback /\ u.err # "nil"
         THEN [obj |-> NilObj, err |-> u.err, applied |-> <<>>, perr |-> 0,
               fallback |-> fallback]
       ELSE IF runtimeObj.rep = "status"
         THEN [obj |-> NilObj, err |-> "nil", applied |-> <<>>, perr |-> 0,
               fallback |-> fallback]
       ELSE LET a == ApplyPatches(ps, runtimeObj)
            IN [obj |-> a.obj, err |-> "nil", applied |-> a.applied, perr |-> a.perr,
                fallback |-> fallback]

\* DecodeAny on the bytes of one document; fallback tells whether
\* yaml.Unmarshal into an unstructured.Unstructured was attempted
DecodeAny(doc, ps) ==
    LET r == k8sDecoder(doc)
        u == UnmarshalUnstructured(doc)
        fallback == r.err = "ErrNotRegistered"
        runtimeObj == IF fallback THEN u.obj ELSE r.obj
    IN IF fallback /\ u.err # "nil"
         THEN [obj |-> NilObj, err |-> u.err, applied |-> <<>>, perr |-> 0,
               fallback |-> fallback]
       ELSE IF ~fallback /\ r.err # "nil"
         THEN [obj |-> NilObj, err |-> r.err, applied |-> <<>>, perr |-> 0,
               fallback |-> fallback]
       ELSE IF runtimeObj.rep = "status"
         THEN [obj |-> NilObj, err |-> "nil", applied |-> <<>>, perr |-> 0,
               fallback |-> fallback]
       ELSE LET a == ApplyPatches(ps, runtimeObj)
            IN [obj |-> a.obj, err |-> "nil", applied |-> a.applied, perr |-> a.perr,
                fallback |-> fallback]

----------------------------------------------------------------------------
(* The Resource Client and the handlers *)

\* what identifies an object to the Resource Client
Key(obj) == [kind |-> obj.kind, name |-> obj.name, ns |-> obj.ns]

\* the object as the backend stores it: metadata.resourceVersion is set
Live(obj) == [obj EXCEPT !.rv = "1"]

Verbs == {"Create", "Update", "Delete", "Get"}

\* for each verb, the error the backend answers the next call with
NoFault == [v \in Verbs |-> "nil"]
FaultOn(v, e) == [NoFault EXCEPT ![v] = e]

\* what the backend answers a call with when it fails for a reason of its
\* own ("nil": it does not)
ClientFaults == {"nil", "ErrForbidden"}

\* r.Create(ctx, obj, opts...)
ClientCreate(cl, obj, fault) ==
    IF obj.rep \in {"nil", "status"} THEN [err |-> "ErrInvalid", cluster |-> cl]
    ELSE IF fault # "nil" THEN [err |-> fault, cluster |-> cl]
    ELSE IF \E x \in cl : Key(x) = Key(obj)
      THEN [err |-> "AlreadyExists", cluster |-> cl]
    ELSE [err |-> "nil", cluster |-> cl \cup {Live(obj)}]

\* r.Update(ctx, obj, opts...)
ClientUpdate(cl, obj, fault) ==
    IF obj.rep \in {"nil", "status"} THEN [err |-> "ErrInvalid", cluster |-> cl]
    ELSE IF fault # "nil" THEN [err |-> fault, cluster |-> cl]
    ELSE IF ~\E x \in cl : Key(x) = Key(obj)
      THEN [err |-> "NotFound", cluster |-> cl]
    ELSE [err |-> "nil",
          cluster |-> {x \in cl : Key(x) # Key(obj)} \cup {Live(obj)}]

\* r.Delete(ctx, obj, opts...)
ClientDelete(cl, obj, fault) ==
    IF obj.rep \in {"nil", "status"} THEN [err |-> "ErrInvalid", cluster |-> cl]
    ELSE IF fault # "nil" THEN [err |-> fault, cluster |-> cl]
    ELSE IF ~\E x \in cl : Key(x) = Key(obj)
      THEN [err |-> "NotFound", cluster |-> cl]
    ELSE [err |-> "nil", cluster |-> {x \in cl : Key(x) # Key(obj)}]

\* r.Get(ctx, name, namespace, obj): obj is filled with the stored object of
\* obj's kind, name and namespace
ClientGet(cl, name, namespace, obj, fault) ==
    LET key == [kind |-> obj.kind, name |-> name, ns |-> namespace]
    IN IF fault # "nil" THEN [err |-> fault, obj |-> obj]
       ELSE IF ~\E x \in cl : Key(x) = key THEN [err |-> "NotFound", obj |-> obj]
       ELSE [err |-> "nil",
             obj |-> [(CHOOSE x \in cl : Key(x) = key) EXCEPT !.rep = obj.rep]]

\* scheme.Scheme.New(gvk): a new, empty object of the registered Go type
SchemeNew(kind) ==
    IF kind = "ConfigMap"
      THEN [obj |-> [NilObj EXCEPT !.rep = "typed", !.kind = kind], err |-> "nil"]
    ELSE IF kind = "Status"
      THEN [obj |-> [NilObj EXCEPT !.rep = "status", !.kind = kind], err |-> "nil"]
    ELSE [obj |-> NilObj, err |-> "ErrNotRegistered"]

\* what a handler runs against: the backend, the errors it will answer the
\* next call of each verb with, and the logs
World(fault) ==
    [cluster |-> cluster, fault |-> fault, log |-> clientLog,
     hseen |-> hseen, mseen |-> mseen]

Logged(w, verb, obj, err) ==
    [w EXCEPT !.log = Append(@, [verb |-> verb, obj |-> obj, err |-> err])]

\* a HandlerFunc written by the caller: it returns ret
UserHandler(ret, obj, w) ==
    [err |-> ret, w |-> [w EXCEPT !.hseen = Append(@, [obj |-> obj, ret |-> ret])]]

\* CreateHandler(r, opts...)(ctx, obj)
CreateHandler(obj, w) ==
    LET r == ClientCreate(w.cluster, obj, w.fault["Create"])
    IN [err |-> r.err,
        w |-> [Logged(w, "Create", obj, r.err) EXCEPT !.cluster = r.cluster]]

\* UpdateHandler(r, opts...)(ctx, obj)
UpdateHandler(obj, w) ==
    LET r == ClientUpdate(w.cluster, obj, w.fault["Update"])
    IN [err |-> r.err,
        w |-> [Logged(w, "Update", obj, r.err) EXCEPT !.cluster = r.cluster]]

\* DeleteHandler(r, opts...)(ctx, obj)
DeleteHandler(obj, w) ==
    LET r == ClientDelete(w.cluster, obj, w.fault["Delete"])
    IN [err |-> r.err,
        w |-> [Logged(w, "Delete", obj, r.err) EXCEPT !.cluster = r.cluster]]

\* NoopHandler(r, opts...)(ctx, obj)
NoopHandler(obj, w) == [err |-> "nil", w |-> w]

\* a HandlerFunc value: the closure of the builder t, around the handler
\* that follows it in the sequence when t wraps one
Fn(t) == [t |-> t, ret |-> "nil", matcher |-> {}]
UserFn(ret) == [t |-> "UserHandler", ret |-> ret, matcher |-> {}]
IgnoreFn(errorMatcher) == [t |-> "IgnoreErrorHandler", ret |-> "nil", matcher |-> errorMatcher]

RECURSIVE Invoke(_, _, _)

\* GetHandler passing the decoded object on to handler
GetHandlerDecoded(handler, obj, w) ==
    LET name == obj.name
        namespace == obj.ns
        gvk == obj.kind
        new == SchemeNew(gvk)
        got == ClientGet(w.cluster, name, namespace, new.obj, w.fault["Get"])
        sought == [new.obj EXCEPT !.name = name, !.ns = namespace]
    IN IF new.err # "nil" THEN [err |-> "ErrGVKNotFound", w |-> w]
       ELSE IF new.obj.rep # "typed" THEN [err |-> "ErrUnexpectedType", w |-> w]
       ELSE IF got.err # "nil"
         THEN [err |-> got.err, w |-> Logged(w, "Get", sought, got.err)]
       ELSE Invoke(handler, obj, Logged(w, "Get", sought, got.err))

\* GetHandler(r, handler)(ctx, obj)
GetHandler(handler, obj, w) ==
    LET name == obj.name
        namespace == obj.ns
        gvk == obj.kind
        new == SchemeNew(gvk)
        got == ClientGet(w.cluster, name, namespace, new.obj, w.fault["Get"])
        sought == [new.obj EXCEPT !.name = name, !.ns = namespace]
    IN IF new.err # "nil" THEN [err |-> "ErrGVKNotFound", w |-> w]
       ELSE IF new.obj.rep # "typed" THEN [err |-> "ErrUnexpectedType", w |-> w]
       ELSE IF got.err # "nil"
         THEN [err |-> got.err, w |-> Logged(w, "Get", sought, got.err)]
       ELSE Invoke(handler, got.obj, Logged(w, "Get", sought, got.err))

\* IgnoreErrorHandler swallowing every error of handler
IgnoreErrorHandlerAny(handler, errorMatcher, obj, w) ==
    LET r == Invoke(handler, obj, w)
        consulted == [r.w EXCEPT !.mseen =
                         Append(@, [err |-> r.err, ok |-> r.err \in errorMatcher])]
    IN IF r.err # "nil" THEN [err |-> "nil", w |-> consulted]
       ELSE [err |-> "nil", w |-> r.w]

\* IgnoreErrorHandler(handler, errorMatcher)(ctx, obj): errorMatcher, the
\* set of the errors it answers true on, is evaluated only when handler
\* returned an error
IgnoreErrorHandler(handler, errorMatcher, obj, w) ==
    LET r == Invoke(handler, obj, w)
        consulted == [r.w EXCEPT !.mseen =
                         Append(@, [err |-> r.err, ok |-> r.err \in errorMatcher])]
    IN IF r.err # "nil" /\ ~(r.err \in errorMatcher)
         THEN [err |-> r.err, w |-> consulted]
       ELSE IF r.err # "nil" THEN [err |-> "nil", w |-> consulted]
       ELSE [err |-> "nil", w |-> r.w]

\* handler(ctx, obj) of a HandlerFunc value
Invoke(handler, obj, w) ==
    LET f == Head(handler)
    IN IF f.t = "CreateHandler" THEN CreateHandler(obj, w)
       ELSE IF f.t = "UpdateHandler" THEN UpdateHandler(obj, w)
       ELSE IF f.t = "DeleteHandler" THEN DeleteHandler(obj, w)
       ELSE IF f.t = "NoopHandler" THEN NoopHandler(obj, w)
       ELSE IF f.t = "GetHandler" THEN GetHandler(Tail(handler), obj, w)
       ELSE IF f.t = "IgnoreErrorHandler"
         THEN IgnoreErrorHandler(Tail(handler), f.matcher, obj, w)
       ELSE UserHandler(f.ret, obj, w)

\* apierrors.IsAlreadyExists, apierrors.IsNotFound
IsAlreadyExists == {"AlreadyExists"}
IsNotFound == {"NotFound"}

\* CreateIgnoreAlreadyExists(r, opts...)(ctx, obj)
CreateIgnoreAlreadyExists(obj, w) ==
    IgnoreErrorHandler(<<Fn("CreateHandler")>>, IsAlreadyExists, obj, w)

\* DeleteIgnoreNotFound(r, opts...)(ctx, obj)
DeleteIgnoreNotFound(obj, w) ==
    IgnoreErrorHandler(<<Fn("CreateHandler")>>, IsNotFound, obj, w)

----------------------------------------------------------------------------
(* State machine: one public call at a time, one action per loop iteration *)

NoResult ==
    [objs |-> <<>>, isNil |-> TRUE, obj |-> NilObj, err |-> "none", epath |-> <<>>]

\* no MutateFunc under test, and no outcome of one
NoPatch == [fn |-> "", kv |-> <<>>, arg |-> ""]
NoPatched == [obj |-> NilObj, err |-> FALSE, overrides |-> <<>>]

\* the directory decoded with CreateIgnoreAlreadyExists(r), and with a
\* context that is or gets cancelled
HandlerDir == {BYml, AaJson, BTxt}

\* the directories and path arguments given to the directory decoders
Dirs == {{AYaml, BYml, CJson}, {BYml, AaJson, BTxt}}
FilePaths ==
    {<<DirD>>, <<DirD, <<"a">>>>, <<DirD, <<"x">>>>, <<DirD, AYaml>>,
     <<NoDir, <<"a">>>>, <<DirD, AYaml, <<"x">>>>}
\* the orders in which filepath.Glob may enumerate the files it matches
Orders == {"asc", "desc"}

\* the patch chains given to the directory decoders
FileChains == {<<>>, <<L1, L2>>, <<OwnerBad, L1>>}

Range(s) == {s[i] : i \in 1..Len(s)}

\* the documents read so far from reader r
DocsOf(log, r) == SelectSeq(log, LAMBDA e : e.doc.name.src = r)

Init ==
    /\ pc = "idle"
    /\ op = ""
    /\ patches = <<>>
    /\ base = NilObj
    /\ dirNames = {}
    /\ path = <<>>
    /\ files = <<>>
    /\ listErr = "nil"
    /\ fileIdx = 0
    /\ opened = <<>>
    /\ closed = {}
    /\ cur = <<>>
    /\ eof = {}
    /\ o = <<>>
    /\ objects = <<>>
    /\ hIdx = 0
    /\ decoded = <<>>
    /\ hcalls = <<>>
    /\ herrAt = 0
    /\ oErr = "nil"
    /\ result = NoResult
    /\ trailing = "EOF"
    /\ handlerFn = "fn"
    /\ run = 1
    /\ replay = <<>>
    /\ ctx = "live"
    /\ cluster = {}
    /\ clientLog = <<>>
    /\ hseen = <<>>
    /\ mseen = <<>>
    /\ hobj = NilObj
    /\ hret = "none"
    /\ target = NilObj
    /\ patch = NoPatch
    /\ patched = NoPatched

\* the manifestPath given to DecodeFile
ManifestPath == <<DirD, AYaml>>

\* the file path an error value names.  os.Open fails with a *PathError,
\* which holds the path it was given; the errors of the readers and of the
\* decoders are made from the bytes they were given and are returned as they
\* are
ErrorPath(err) ==
    IF err # "ErrOpen" THEN <<>>
    ELSE IF pc = "idle" THEN ManifestPath
    ELSE files[fileIdx + 1]

\* the call returning with each file closed at the end of its loop
\* iteration, so that an early return leaves the current file open
ReturnCloseInLoop(objs, isNil, obj, err) ==
    /\ pc' = "done"
    /\ result' = [objs |-> objs, isNil |-> isNil, obj |-> obj, err |-> err,
                  epath |-> ErrorPath(err)]
    /\ closed' = IF err = "nil" THEN Range(opened)
                 ELSE Range(SubSeq(opened, 1, fileIdx))

\* the call returns: deferred f.Close() calls run
Return(objs, isNil, obj, err) ==
    /\ pc' = "done"
    /\ result' = [objs |-> objs, isNil |-> isNil, obj |-> obj, err |-> err,
                  epath |-> ErrorPath(err)]
    /\ closed' = Range(opened)

\* the handlers given as handlerFn: a handler written by the caller, or
\* CreateIgnoreAlreadyExists(r)
HandlerFns == {"fn", "CreateIgnoreAlreadyExists"}

\* the patch chains given together with CreateIgnoreAlreadyExists(r)
HandlerChains == {<<Ns, L1>>}

\* what handlerFn changes
hstate == <<hcalls, herrAt, cluster, clientLog, hseen, mseen>>

\* handlerFn(ctx, obj): a handler written by the caller returns nil or, at
\* most once, an error; CreateIgnoreAlreadyExists(r) calls the backend, which
\* answers with an error of its own at most once
CallHandler(obj, ndecoded) ==
    /\ hcalls' = Append(hcalls, [obj |-> obj, ndecoded |-> ndecoded,
                                 nopened |-> Len(opened), ctx |-> ctx])
    /\ IF handlerFn = "fn"
         THEN /\ \E fails \in BOOLEAN :
                    /\ fails => herrAt = 0
                    /\ herrAt' = IF fails THEN Len(hcalls) + 1 ELSE herrAt
              /\ UNCHANGED <<cluster, clientLog, hseen, mseen>>
         ELSE \E f \in ClientFaults :
                LET r == CreateIgnoreAlreadyExists(obj, World(FaultOn("Create", f)))
                IN /\ f # "nil" => herrAt = 0
                   /\ herrAt' = IF herrAt = 0 /\ r.err # "nil"
                                  THEN Len(hcalls) + 1 ELSE herrAt
                   /\ cluster' = r.w.cluster
                   /\ clientLog' = r.w.log
                   /\ hseen' = r.w.hseen
                   /\ mseen' = r.w.mseen

\* a reader yields item: documents are drawn as they are read, and a
\* second run reads what the first run read
CanRead(item) ==
    /\ item \in DocKinds \cup {"Malformed"} => Len(decoded) < MaxDocs
    /\ run = 2 =>
          LET k == Len(DocsOf(decoded, cur)) + 1
              was == DocsOf(replay, cur)
          IN item = IF k <= Len(was) THEN was[k].doc.kind ELSE "EOF"

NextDoc(item) == Doc(item, cur, Len(DocsOf(decoded, cur)) + 1)

LogEntry(doc, r) ==
    [doc |-> doc, applied |-> r.applied, perr |-> r.perr,
     fallback |-> IF "fallback" \in DOMAIN r THEN r.fallback ELSE FALSE]

\* DecodeAny(manifest, defaults, patches...)
CallDecodeAny ==
    /\ pc = "idle"
    /\ \E ps \in Chains, item \in (ReadItems \ {"EOF"}) \cup {"Mismatch"} :
        /\ op' = "DecodeAny"
        /\ patches' = ps
        /\ cur' = Manifest
        /\ IF item = "ReadErr"
             THEN /\ decoded' = decoded
                  /\ Return(<<>>, TRUE, NilObj, "ErrRead")
             ELSE LET doc == Doc(item, Manifest, 1)
                      r == DecodeAny(doc, ps)
                  IN /\ decoded' = Append(decoded, LogEntry(doc, r))
                     /\ Return(<<>>, TRUE, r.obj, r.err)
    /\ UNCHANGED <<base, dirNames, path, files, listErr, fileIdx,
                   opened, eof, o, objects, hIdx, hcalls, herrAt, oErr>>
    /\ UNCHANGED <<trailing, handlerFn, run, replay, ctx, hvars, pvars>>

\* os.Open(file) succeeds or fails
OpenResults == {"nil", "ErrOpen"}

\* what can follow the first document of the input of Decode
Trailings == {"EOF", "ConfigMap", "Malformed"}

\* Decode reporting an error when the first document is not the last
DecodeCallStrict(ps, b, item) ==
    IF item = "EOF"
      THEN /\ decoded' = decoded
           /\ eof' = eof \cup {cur'}
           /\ Return(<<>>, TRUE, b, "ErrEOF")
    ELSE IF item = "ReadErr"
      THEN /\ UNCHANGED <<decoded, eof>>
           /\ Return(<<>>, TRUE, b, "ErrRead")
    ELSE LET doc == Doc(item, cur', 1)
             d == DecodeInto(b, doc)
             a == ApplyPatches(ps, d.obj)
         IN /\ eof' = eof
            /\ IF d.err # "nil"
                 THEN /\ decoded' = Append(decoded, LogEntry(doc, NoPatchLog))
                      /\ Return(<<>>, TRUE, b, d.err)
                 ELSE /\ decoded' = Append(decoded, LogEntry(doc, a))
                      /\ Return(<<>>, TRUE, a.obj,
                                IF trailing' = "EOF" THEN "nil" ELSE "ErrTrailing")

\* the body of Decode on the reader cur': the decoder is asked for one
\* document, item, and what follows it is never read
DecodeCall(ps, b, item) ==
    IF item = "EOF"
      THEN /\ decoded' = decoded
           /\ eof' = eof \cup {cur'}
           /\ Return(<<>>, TRUE, b, "ErrEOF")
    ELSE IF item = "ReadErr"
      THEN /\ UNCHANGED <<decoded, eof>>
           /\ Return(<<>>, TRUE, b, "ErrRead")
    ELSE LET doc == Doc(item, cur', 1)
             d == DecodeInto(b, doc)
             a == ApplyPatches(ps, d.obj)
         IN /\ eof' = eof
            /\ IF d.err # "nil"
                 THEN /\ decoded' = Append(decoded, LogEntry(doc, NoPatchLog))
                      /\ Return(<<>>, TRUE, b, d.err)
                 ELSE /\ decoded' = Append(decoded, LogEntry(doc, a))
                      /\ Return(<<>>, TRUE, a.obj, "nil")

\* what follows item in the input
After(item, tr) == IF item \in DocKinds THEN tr ELSE "EOF"

\* Decode(manifest, obj, patches...)
CallDecode ==
    /\ pc = "idle"
    /\ cur' = Manifest
    /\ \E ps \in Chains, b \in Bases, item \in ReadItems, tr \in Trailings :
        /\ op' = "Decode"
        /\ patches' = ps
        /\ base' = b
        /\ trailing' = After(item, tr)
        /\ DecodeCall(ps, b, item)
    /\ UNCHANGED <<dirNames, path, files, listErr, fileIdx,
                   opened, o, objects, hIdx, hcalls, herrAt, oErr>>
    /\ UNCHANGED <<handlerFn, run, replay, ctx, hvars, pvars>>

\* DecodeString(rawManifest, obj, patches...): a strings.Reader does not
\* fail
CallDecodeString ==
    /\ pc = "idle"
    /\ cur' = Manifest
    /\ \E ps \in Chains, b \in Bases, item \in ReadItems \ {"ReadErr"}, tr \in Trailings :
        /\ op' = "DecodeString"
        /\ patches' = ps
        /\ base' = b
        /\ trailing' = After(item, tr)
        /\ DecodeCall(ps, b, item)
    /\ UNCHANGED <<dirNames, path, files, listErr, fileIdx,
                   opened, o, objects, hIdx, hcalls, herrAt, oErr>>
    /\ UNCHANGED <<handlerFn, run, replay, ctx, hvars, pvars>>

\* DecodeFile(manifestPath, obj, patches...): os.Open
CallDecodeFile ==
    /\ pc = "idle"
    /\ \E ps \in Chains, b \in Bases, e \in OpenResults :
        /\ op' = "DecodeFile"
        /\ patches' = ps
        /\ base' = b
        /\ path' = ManifestPath
        /\ IF e # "nil"
             THEN /\ Return(<<>>, TRUE, b, e)
                  /\ UNCHANGED <<opened, cur>>
             ELSE /\ opened' = Append(opened, ManifestPath)
                  /\ cur' = ManifestPath
                  /\ pc' = "DecodeFile"
                  /\ UNCHANGED <<result, closed>>
    /\ UNCHANGED <<dirNames, files, listErr, fileIdx, eof, o, objects, hIdx,
                   decoded, hcalls, herrAt, oErr>>
    /\ UNCHANGED <<trailing, handlerFn, run, replay, ctx, hvars, pvars>>

\* DecodeFile: return Decode(f, obj, patches...), then the deferred f.Close()
DecodeFileDecode ==
    /\ pc = "DecodeFile"
    /\ cur' = cur
    /\ \E item \in ReadItems, tr \in Trailings :
        /\ trailing' = After(item, tr)
        /\ DecodeCall(patches, base, item)
    /\ UNCHANGED <<op, patches, base, dirNames, path, files, listErr, fileIdx,
                   opened, o, objects, hIdx, hcalls, herrAt, oErr>>
    /\ UNCHANGED <<handlerFn, run, replay, ctx, hvars, pvars>>

\* the caller cancels the context while DecodeEach / DecodeEachFile runs.
\* The context a call is given is "live" or "cancelled" already; one that is
\* or gets cancelled is given with no patches
Cancel ==
    /\ op \in {"DecodeEach", "DecodeEachFile"}
    /\ pc \notin {"idle", "done"}
    /\ handlerFn = "fn"
    /\ patches = <<>>
    /\ op = "DecodeEachFile" => (dirNames = HandlerDir /\ path = <<DirD>>)
    /\ ctx = "live"
    /\ ctx' = "cancelled"
    /\ UNCHANGED <<pc, dvars, trailing, handlerFn, run, replay, hvars, pvars>>

\* DecodeEach(ctx, manifest, defaults, handlerFn, patches...): entry
CallDecodeEach ==
    /\ pc = "idle"
    /\ \E ps \in Chains, h \in HandlerFns, c \in {"live", "cancelled"} :
        /\ h # "fn" => ps \in HandlerChains
        /\ c # "live" => (h = "fn" /\ ps = <<>>)
        /\ op' = "DecodeEach"
        /\ patches' = ps
        /\ handlerFn' = h
        /\ ctx' = c
    /\ cur' = Manifest
    /\ pc' = "DecodeEach"
    /\ UNCHANGED <<base, dirNames, path, files, listErr, fileIdx,
                   opened, closed, eof, o, objects, hIdx, decoded, hcalls,
                   herrAt, oErr, result>>
    /\ UNCHANGED <<trailing, run, replay, hvars, pvars>>

\* DecodeEach skipping a document that fails to decode
DecodeEachIterSkip ==
    /\ pc = "DecodeEach"
    /\ \E item \in ReadItems :
        /\ CanRead(item)
        /\ IF item = "EOF"
             THEN /\ eof' = eof \cup {cur}
                  /\ UNCHANGED <<decoded, hstate>>
                  /\ Return(<<>>, TRUE, NilObj, "nil")
           ELSE IF item = "ReadErr"
             THEN /\ UNCHANGED <<eof, decoded, hstate>>
                  /\ Return(<<>>, TRUE, NilObj, "ErrRead")
           ELSE LET doc == NextDoc(item)
                    r == DecodeAny(doc, patches)
                IN /\ eof' = eof
                   /\ decoded' = Append(decoded, LogEntry(doc, r))
                   /\ IF r.err # "nil"
                        THEN UNCHANGED <<hstate, pc, result, closed>>
                        ELSE /\ CallHandler(r.obj, Len(decoded) + 1)
                             /\ UNCHANGED <<pc, result, closed>>
    /\ UNCHANGED <<op, patches, base, dirNames, path, files,
                   listErr, fileIdx, opened, cur, o, objects, hIdx, oErr>>
    /\ UNCHANGED <<trailing, handlerFn, run, replay, ctx, hobj, hret, pvars>>

\* DecodeEach: one iteration of the for loop
DecodeEachIter ==
    /\ pc = "DecodeEach"
    /\ \E item \in ReadItems :
        /\ CanRead(item)
        /\ IF item = "EOF"
             THEN /\ eof' = eof \cup {cur}
                  /\ UNCHANGED <<decoded, hstate>>
                  /\ Return(<<>>, TRUE, NilObj, "nil")
           ELSE IF item = "ReadErr"
             THEN /\ UNCHANGED <<eof, decoded, hstate>>
                  /\ Return(<<>>, TRUE, NilObj, "ErrRead")
           ELSE LET doc == NextDoc(item)
                    r == DecodeAny(doc, patches)
                IN /\ eof' = eof
                   /\ decoded' = Append(decoded, LogEntry(doc, r))
                   /\ IF r.err # "nil"
                        THEN /\ UNCHANGED hstate
                             /\ Return(<<>>, TRUE, NilObj, r.err)
                        ELSE /\ CallHandler(r.obj, Len(decoded) + 1)
                             /\ UNCHANGED <<pc, result, closed>>
    /\ UNCHANGED <<op, patches, base, dirNames, path, files,
                   listErr, fileIdx, opened, cur, o, objects, hIdx, oErr>>
    /\ UNCHANGED <<trailing, handlerFn, run, replay, ctx, hobj, hret, pvars>>

\* append with the new object put first
AppendObjectFirst(objs, obj) == <<obj>> \o objs

\* objects = append(objects, obj)
AppendObject(objs, obj) == Append(objs, obj)

\* DecodeAll(manifest, defaults, patches...): entry
CallDecodeAll ==
    /\ pc = "idle"
    /\ \E ps \in Chains :
        /\ op' = "DecodeAll"
        /\ patches' = ps
    /\ cur' = Manifest
    /\ o' = <<>>
    /\ pc' = "DecodeAll"
    /\ UNCHANGED <<base, dirNames, path, files, listErr, fileIdx,
                   opened, closed, eof, objects, hIdx, decoded, hcalls,
                   herrAt, oErr, result>>
    /\ UNCHANGED <<trailing, handlerFn, run, replay, ctx, hvars, pvars>>

\* DecodeAll returns (objs, err), to the caller of the public call or to
\* the directory decoder that called it
DecodeAllReturn(objs, isNil, err) ==
    IF op = "DecodeAll"
      THEN /\ Return(objs, isNil, NilObj, err)
           /\ UNCHANGED <<o, oErr>>
      ELSE /\ o' = objs
           /\ oErr' = err
           /\ pc' = IF op = "DecodeAllFiles" THEN "AllFilesCollect" ELSE "EachFileAfter"
           /\ UNCHANGED <<result, closed>>

\* DecodeAll: one iteration of the for loop
DecodeAllIter ==
    /\ pc = "DecodeAll"
    /\ \E item \in ReadItems :
        /\ CanRead(item)
        /\ IF item = "EOF"
             THEN /\ eof' = eof \cup {cur}
                  /\ decoded' = decoded
                  /\ DecodeAllReturn(o, FALSE, "nil")
           ELSE IF item = "ReadErr"
             THEN /\ UNCHANGED <<eof, decoded>>
                  /\ DecodeAllReturn(<<>>, TRUE, "ErrRead")
           ELSE LET doc == NextDoc(item)
                    r == DecodeAny(doc, patches)
                IN /\ eof' = eof
                   /\ decoded' = Append(decoded, LogEntry(doc, r))
                   /\ IF r.err # "nil"
                        THEN DecodeAllReturn(<<>>, TRUE, r.err)
                        ELSE /\ o' = AppendObject(o, r.obj)
                             /\ UNCHANGED <<pc, result, closed, oErr>>
    /\ UNCHANGED <<op, patches, base, dirNames, path, files,
                   listErr, fileIdx, opened, cur, objects, hIdx, hcalls,
                   herrAt>>
    /\ UNCHANGED <<trailing, handlerFn, run, replay, ctx, hvars, pvars>>

\* DecodeObjects(manifest, obj, patches...): entry
CallDecodeObjects ==
    /\ pc = "idle"
    /\ \E ps \in Chains, b \in Bases :
        /\ op' = "DecodeObjects"
        /\ patches' = ps
        /\ base' = b
    /\ cur' = Manifest
    /\ o' = <<>>
    /\ pc' = "DecodeObjects"
    /\ UNCHANGED <<dirNames, path, files, listErr, fileIdx,
                   opened, closed, eof, objects, hIdx, decoded, hcalls,
                   herrAt, oErr, result>>
    /\ UNCHANGED <<trailing, handlerFn, run, replay, ctx, hvars, pvars>>

\* DecodeObjects returns (objects, err), to the caller of the public call or
\* to DecodeDirectory
DecodeObjectsReturn(objs, isNil, err) ==
    IF op = "DecodeObjects"
      THEN /\ Return(objs, isNil, NilObj, err)
           /\ UNCHANGED <<o, oErr>>
      ELSE /\ o' = objs
           /\ oErr' = err
           /\ pc' = "DirectoryCollect"
           /\ UNCHANGED <<result, closed>>

\* DecodeObjects decoding every document into one and the same object
DecodeObjectsIterShared ==
    /\ pc = "DecodeObjects"
    /\ \E item \in ReadItems :
        /\ CanRead(item)
        /\ IF item = "EOF"
             THEN /\ eof' = eof \cup {cur}
                  /\ UNCHANGED <<decoded, base>>
                  /\ DecodeObjectsReturn(o, FALSE, "nil")
           ELSE IF item = "ReadErr"
             THEN /\ UNCHANGED <<eof, decoded, base>>
                  /\ DecodeObjectsReturn(<<>>, TRUE, "ErrRead")
           ELSE LET doc == NextDoc(item)
                    d == DecodeInto(base, doc)
                    a == ApplyPatches(patches, d.obj)
                IN /\ eof' = eof
                   /\ IF d.err # "nil"
                        THEN /\ decoded' = Append(decoded, LogEntry(doc, NoPatchLog))
                             /\ base' = base
                             /\ DecodeObjectsReturn(<<>>, TRUE, d.err)
                        ELSE /\ decoded' = Append(decoded, LogEntry(doc, a))
                             /\ base' = a.obj
                             /\ o' = [i \in 1..(Len(o) + 1) |-> a.obj]
                             /\ UNCHANGED <<pc, result, closed, oErr>>
    /\ UNCHANGED <<op, patches, dirNames, path, files,
                   listErr, fileIdx, opened, cur, objects, hIdx, hcalls,
                   herrAt>>
    /\ UNCHANGED <<trailing, handlerFn, run, replay, ctx, hvars, pvars>>

\* DecodeObjects: one iteration of the for loop
DecodeObjectsIter ==
    /\ pc = "DecodeObjects"
    /\ \E item \in ReadItems :
        /\ CanRead(item)
        /\ IF item = "EOF"
             THEN /\ eof' = eof \cup {cur}
                  /\ decoded' = decoded
                  /\ DecodeObjectsReturn(o, FALSE, "nil")
           ELSE IF item = "ReadErr"
             THEN /\ UNCHANGED <<eof, decoded>>
                  /\ DecodeObjectsReturn(<<>>, TRUE, "ErrRead")
           ELSE LET doc == NextDoc(item)
                    d == DecodeInto(base, doc)
                    a == ApplyPatches(patches, d.obj)
                IN /\ eof' = eof
                   /\ IF d.err # "nil"
                        THEN /\ decoded' = Append(decoded, LogEntry(doc, NoPatchLog))
                             /\ DecodeObjectsReturn(<<>>, TRUE, d.err)
                        ELSE /\ decoded' = Append(decoded, LogEntry(doc, a))
                             /\ o' = AppendObject(o, a.obj)
                             /\ UNCHANGED <<pc, result, closed, oErr>>
    /\ UNCHANGED <<op, patches, base, dirNames, path, files,
                   listErr, fileIdx, opened, cur, objects, hIdx, hcalls,
                   herrAt>>
    /\ UNCHANGED <<trailing, handlerFn, run, replay, ctx, hvars, pvars>>

\* DecodeDocuments(manifest, base, fn, patches...): entry
CallDecodeDocuments ==
    /\ pc = "idle"
    /\ \E ps \in Chains, b \in Bases :
        /\ op' = "DecodeDocuments"
        /\ patches' = ps
        /\ base' = b
    /\ cur' = Manifest
    /\ pc' = "DecodeDocuments"
    /\ UNCHANGED <<dirNames, path, files, listErr, fileIdx,
                   opened, closed, eof, o, objects, hIdx, decoded, hcalls,
                   herrAt, oErr, result>>
    /\ UNCHANGED <<trailing, handlerFn, run, replay, ctx, hvars, pvars>>

\* DecodeDocuments: one iteration of the for loop; fn returns nothing
DecodeDocumentsIter ==
    /\ pc = "DecodeDocuments"
    /\ \E item \in ReadItems :
        /\ CanRead(item)
        /\ IF item = "EOF"
             THEN /\ eof' = eof \cup {cur}
                  /\ UNCHANGED <<decoded, hcalls>>
                  /\ Return(<<>>, TRUE, NilObj, "nil")
           ELSE IF item = "ReadErr"
             THEN /\ UNCHANGED <<eof, decoded, hcalls>>
                  /\ Return(<<>>, TRUE, NilObj, "ErrRead")
           ELSE LET doc == NextDoc(item)
                    d == DecodeInto(base, doc)
                    a == ApplyPatches(patches, d.obj)
                IN /\ eof' = eof
                   /\ IF d.err # "nil"
                        THEN /\ decoded' = Append(decoded, LogEntry(doc, NoPatchLog))
                             /\ hcalls' = hcalls
                             /\ Return(<<>>, TRUE, NilObj, d.err)
                        ELSE /\ decoded' = Append(decoded, LogEntry(doc, a))
                             /\ hcalls' = Append(hcalls,
                                    [obj |-> a.obj, ndecoded |-> Len(decoded) + 1,
                                     nopened |-> Len(opened)])
                             /\ UNCHANGED <<pc, result, closed>>
    /\ UNCHANGED <<op, patches, base, dirNames, path, files,
                   listErr, fileIdx, opened, cur, o, objects, hIdx,
                   herrAt, oErr>>
    /\ UNCHANGED <<trailing, handlerFn, run, replay, ctx, hvars, pvars>>

\* an item the list holds before the call
PreItem(b) ==
    [NilObj EXCEPT !.rep = b.rep, !.kind = "ConfigMap",
                   !.name = [src |-> <<<<"p">>>>, idx |-> 0]]

\* meta.GetItemsPtr(obj) succeeds, or fails on a list type without Items
ItemsPtrResults == {"nil", "ErrNoItems"}

\* DecodeListItems(manifest, obj, patches...): entry.  o is obj.Items, base
\* the new object of the type of the elements of Items
CallDecodeListItems ==
    /\ pc = "idle"
    /\ \E ps \in Chains, b \in Bases, n \in {0, 1}, e \in ItemsPtrResults :
        /\ op' = "DecodeListItems"
        /\ patches' = ps
        /\ base' = b
        /\ IF e # "nil"
             THEN /\ o' = <<>>
                  /\ Return(<<>>, FALSE, NilObj, e)
             ELSE /\ o' = [i \in 1..n |-> PreItem(b)]
                  /\ pc' = "DecodeListItems"
                  /\ UNCHANGED <<result, closed>>
    /\ cur' = Manifest
    /\ UNCHANGED <<dirNames, path, files, listErr, fileIdx,
                   opened, eof, objects, hIdx, decoded, hcalls,
                   herrAt, oErr>>
    /\ UNCHANGED <<trailing, handlerFn, run, replay, ctx, hvars, pvars>>

\* DecodeListItems appending the object as decoded, the patches after it
DecodeListItemsIterUnpatched ==
    /\ pc = "DecodeListItems"
    /\ \E item \in ReadItems :
        /\ CanRead(item)
        /\ IF item = "EOF"
             THEN /\ eof' = eof \cup {cur}
                  /\ UNCHANGED <<decoded, o>>
                  /\ Return(o, FALSE, NilObj, "nil")
           ELSE IF item = "ReadErr"
             THEN /\ UNCHANGED <<eof, decoded, o>>
                  /\ Return(o, FALSE, NilObj, "ErrRead")
           ELSE LET doc == NextDoc(item)
                    d == DecodeInto(base, doc)
                    a == ApplyPatches(patches, d.obj)
                IN /\ eof' = eof
                   /\ IF d.err # "nil"
                        THEN /\ decoded' = Append(decoded, LogEntry(doc, NoPatchLog))
                             /\ o' = o
                             /\ Return(o, FALSE, NilObj, d.err)
                        ELSE /\ decoded' = Append(decoded, LogEntry(doc, a))
                             /\ o' = AppendObject(o, d.obj)
                             /\ UNCHANGED <<pc, result, closed>>
    /\ UNCHANGED <<op, patches, base, dirNames, path, files,
                   listErr, fileIdx, opened, cur, objects, hIdx, hcalls,
                   herrAt, oErr>>
    /\ UNCHANGED <<trailing, handlerFn, run, replay, ctx, hvars, pvars>>

\* DecodeListItems: one iteration of the for loop; the items appended before
\* a failure stay in the list
DecodeListItemsIter ==
    /\ pc = "DecodeListItems"
    /\ \E item \in ReadItems :
        /\ CanRead(item)
        /\ IF item = "EOF"
             THEN /\ eof' = eof \cup {cur}
                  /\ UNCHANGED <<decoded, o>>
                  /\ Return(o, FALSE, NilObj, "nil")
           ELSE IF item = "ReadErr"
             THEN /\ UNCHANGED <<eof, decoded, o>>
                  /\ Return(o, FALSE, NilObj, "ErrRead")
           ELSE LET doc == NextDoc(item)
                    d == DecodeInto(base, doc)
                    a == ApplyPatches(patches, d.obj)
                IN /\ eof' = eof
                   /\ IF d.err # "nil"
                        THEN /\ decoded' = Append(decoded, LogEntry(doc, NoPatchLog))
                             /\ o' = o
                             /\ Return(o, FALSE, NilObj, d.err)
                        ELSE /\ decoded' = Append(decoded, LogEntry(doc, a))
                             /\ o' = AppendObject(o, a.obj)
                             /\ UNCHANGED <<pc, result, closed>>
    /\ UNCHANGED <<op, patches, base, dirNames, path, files,
                   listErr, fileIdx, opened, cur, objects, hIdx, hcalls,
                   herrAt, oErr>>
    /\ UNCHANGED <<trailing, handlerFn, run, replay, ctx, hvars, pvars>>

----------------------------------------------------------------------------
(* Directory decoders *)

\* DecodeAllFiles(filepath, defaults, patches...): entry and file listing
CallDecodeAllFiles ==
    /\ pc = "idle"
    /\ \E ps \in FileChains, names \in Dirs, p \in FilePaths, ord \in Orders :
        LET l == listResourceFiles(names, p, ord)
        IN /\ op' = "DecodeAllFiles"
           /\ patches' = ps
           /\ dirNames' = names
           /\ path' = p
           /\ files' = l.files
           /\ listErr' = l.err
           /\ IF l.err # "nil"
                THEN Return(<<>>, TRUE, NilObj, l.err)
                ELSE /\ pc' = "AllFilesLoop"
                     /\ UNCHANGED <<result, closed>>
    /\ objects' = <<>>
    /\ UNCHANGED <<base, fileIdx, opened, cur, eof, o, hIdx, decoded, hcalls,
                   herrAt, oErr>>
    /\ UNCHANGED <<trailing, handlerFn, run, replay, ctx, hvars, pvars>>

\* DecodeAllFiles: the range loop reaches the next file, or ends
AllFilesNext ==
    /\ pc = "AllFilesLoop"
    /\ IF fileIdx = Len(files)
         THEN /\ Return(objects, FALSE, NilObj, "nil")
              /\ UNCHANGED <<opened, cur, o>>
         ELSE \E e \in OpenResults :
                IF e # "nil"
                  THEN /\ Return(<<>>, TRUE, NilObj, e)
                       /\ UNCHANGED <<opened, cur, o>>
                  ELSE /\ opened' = Append(opened, files[fileIdx + 1])
                       /\ cur' = files[fileIdx + 1]
                       /\ o' = <<>>
                       /\ pc' = "DecodeAll"
                       /\ UNCHANGED <<result, closed>>
    /\ UNCHANGED <<op, patches, base, dirNames, path, files,
                   listErr, fileIdx, eof, objects, hIdx, decoded, hcalls,
                   herrAt, oErr>>
    /\ UNCHANGED <<trailing, handlerFn, run, replay, ctx, hvars, pvars>>

\* AllFilesCollect putting the objects of the current file first
AllFilesCollectFirst ==
    /\ pc = "AllFilesCollect"
    /\ IF oErr # "nil"
         THEN /\ Return(<<>>, TRUE, NilObj, oErr)
              /\ UNCHANGED <<objects, fileIdx>>
         ELSE /\ objects' = o \o objects
              /\ fileIdx' = fileIdx + 1
              /\ pc' = "AllFilesLoop"
              /\ UNCHANGED <<result, closed>>
    /\ UNCHANGED <<op, patches, base, dirNames, path, files,
                   listErr, opened, cur, eof, o, hIdx, decoded, hcalls,
                   herrAt, oErr>>
    /\ UNCHANGED <<trailing, handlerFn, run, replay, ctx, hvars, pvars>>

\* AllFilesCollect returning the objects gathered so far with the error
AllFilesCollectPartial ==
    /\ pc = "AllFilesCollect"
    /\ IF oErr # "nil"
         THEN /\ Return(objects, FALSE, NilObj, oErr)
              /\ UNCHANGED <<objects, fileIdx>>
         ELSE /\ objects' = objects \o o
              /\ fileIdx' = fileIdx + 1
              /\ pc' = "AllFilesLoop"
              /\ UNCHANGED <<result, closed>>
    /\ UNCHANGED <<op, patches, base, dirNames, path, files,
                   listErr, opened, cur, eof, o, hIdx, decoded, hcalls,
                   herrAt, oErr>>
    /\ UNCHANGED <<trailing, handlerFn, run, replay, ctx, hvars, pvars>>

\* DecodeAllFiles: DecodeAll returned for the current file
AllFilesCollect ==
    /\ pc = "AllFilesCollect"
    /\ IF oErr # "nil"
         THEN /\ Return(<<>>, TRUE, NilObj, oErr)
              /\ UNCHANGED <<objects, fileIdx>>
         ELSE /\ objects' = objects \o o
              /\ fileIdx' = fileIdx + 1
              /\ pc' = "AllFilesLoop"
              /\ UNCHANGED <<result, closed>>
    /\ UNCHANGED <<op, patches, base, dirNames, path, files,
                   listErr, opened, cur, eof, o, hIdx, decoded, hcalls,
                   herrAt, oErr>>
    /\ UNCHANGED <<trailing, handlerFn, run, replay, ctx, hvars, pvars>>

\* DecodeDirectory(directory, obj, patches...): entry and file listing
CallDecodeDirectory ==
    /\ pc = "idle"
    /\ \E ps \in {<<>>, <<OwnerBad, L1>>}, b \in Bases, names \in Dirs,
          p \in {<<DirD>>, <<DirD, AYaml>>}, ord \in Orders :
        LET l == listResourceFiles(names, p, ord)
        IN /\ op' = "DecodeDirectory"
           /\ patches' = ps
           /\ base' = b
           /\ dirNames' = names
           /\ path' = p
           /\ files' = l.files
           /\ listErr' = l.err
           /\ IF l.err # "nil"
                THEN Return(<<>>, TRUE, NilObj, l.err)
                ELSE /\ pc' = "DirectoryLoop"
                     /\ UNCHANGED <<result, closed>>
    /\ objects' = <<>>
    /\ UNCHANGED <<fileIdx, opened, cur, eof, o, hIdx, decoded, hcalls,
                   herrAt, oErr>>
    /\ UNCHANGED <<trailing, handlerFn, run, replay, ctx, hvars, pvars>>

\* DecodeDirectory: the range loop reaches the next file, or ends
DirectoryNext ==
    /\ pc = "DirectoryLoop"
    /\ IF fileIdx = Len(files)
         THEN /\ Return(objects, FALSE, NilObj, "nil")
              /\ UNCHANGED <<opened, cur, o>>
         ELSE \E e \in OpenResults :
                IF e # "nil"
                  THEN /\ Return(<<>>, TRUE, NilObj, e)
                       /\ UNCHANGED <<opened, cur, o>>
                  ELSE /\ opened' = Append(opened, files[fileIdx + 1])
                       /\ cur' = files[fileIdx + 1]
                       /\ o' = <<>>
                       /\ pc' = "DecodeObjects"
                       /\ UNCHANGED <<result, closed>>
    /\ UNCHANGED <<op, patches, base, dirNames, path, files,
                   listErr, fileIdx, eof, objects, hIdx, decoded, hcalls,
                   herrAt, oErr>>
    /\ UNCHANGED <<trailing, handlerFn, run, replay, ctx, hvars, pvars>>

\* DecodeDirectory: DecodeObjects returned for the current file
DirectoryCollect ==
    /\ pc = "DirectoryCollect"
    /\ IF oErr # "nil"
         THEN /\ Return(<<>>, TRUE, NilObj, oErr)
              /\ UNCHANGED <<objects, fileIdx>>
         ELSE /\ objects' = objects \o o
              /\ fileIdx' = fileIdx + 1
              /\ pc' = "DirectoryLoop"
              /\ UNCHANGED <<result, closed>>
    /\ UNCHANGED <<op, patches, base, dirNames, path, files,
                   listErr, opened, cur, eof, o, hIdx, decoded, hcalls,
                   herrAt, oErr>>
    /\ UNCHANGED <<trailing, handlerFn, run, replay, ctx, hvars, pvars>>

\* DecodeEachFile(ctx, filepath, defaults, handlerFn, patches...): entry and
\* file listing
CallDecodeEachFile ==
    /\ pc = "idle"
    /\ \E ps \in FileChains \cup HandlerChains, h \in HandlerFns,
       names \in Dirs, p \in FilePaths, ord \in Orders,
       c \in {"live", "cancelled"} :
        LET l == listResourceFiles(names, p, ord)
        IN /\ ps \in IF h = "fn" THEN FileChains ELSE HandlerChains
           /\ h # "fn" => (names = HandlerDir /\ p = <<DirD>>)
           /\ c # "live" =>
                 (h = "fn" /\ ps = <<>> /\ names = HandlerDir /\ p = <<DirD>>)
           /\ handlerFn' = h
           /\ ctx' = c
           /\ op' = "DecodeEachFile"
           /\ patches' = ps
           /\ dirNames' = names
           /\ path' = p
           /\ files' = l.files
           /\ listErr' = l.err
           /\ IF l.err # "nil"
                THEN Return(<<>>, TRUE, NilObj, l.err)
                ELSE /\ pc' = "EachFileLoop"
                     /\ UNCHANGED <<result, closed>>
    /\ UNCHANGED <<base, fileIdx, opened, cur, eof, o, objects, hIdx, decoded,
                   hcalls, herrAt, oErr>>
    /\ UNCHANGED <<trailing, run, replay, hvars, pvars>>

\* DecodeEachFile: the range loop reaches the next file, or ends
EachFileNext ==
    /\ pc = "EachFileLoop"
    /\ IF fileIdx = Len(files)
         THEN /\ Return(<<>>, TRUE, NilObj, "nil")
              /\ UNCHANGED <<opened, cur, o>>
         ELSE \E e \in OpenResults :
                IF e # "nil"
                  THEN /\ Return(<<>>, TRUE, NilObj, e)
                       /\ UNCHANGED <<opened, cur, o>>
                  ELSE /\ opened' = Append(opened, files[fileIdx + 1])
                       /\ cur' = files[fileIdx + 1]
                       /\ o' = <<>>
                       /\ pc' = "DecodeAll"
                       /\ UNCHANGED <<result, closed>>
    /\ UNCHANGED <<op, patches, base, dirNames, path, files,
                   listErr, fileIdx, eof, objects, hIdx, decoded, hcalls,
                   herrAt, oErr>>
    /\ UNCHANGED <<trailing, handlerFn, run, replay, ctx, hvars, pvars>>

\* DecodeEachFile: DecodeAll returned for the current file
EachFileAfter ==
    /\ pc = "EachFileAfter"
    /\ IF oErr # "nil"
         THEN /\ Return(<<>>, TRUE, NilObj, oErr)
              /\ hIdx' = hIdx
         ELSE /\ hIdx' = 0
              /\ pc' = "EachFileHandle"
              /\ UNCHANGED <<result, closed>>
    /\ UNCHANGED <<op, patches, base, dirNames, path, files,
                   listErr, fileIdx, opened, cur, eof, o, objects, decoded,
                   hcalls, herrAt, oErr>>
    /\ UNCHANGED <<trailing, handlerFn, run, replay, ctx, hvars, pvars>>

\* DecodeEachFile returning ctx.Err() before a handler invocation once the
\* context is cancelled
EachFileHandleCtx ==
    /\ pc = "EachFileHandle"
    /\ IF hIdx = Len(o)
         THEN /\ fileIdx' = fileIdx + 1
              /\ pc' = "EachFileLoop"
              /\ UNCHANGED <<hIdx, hstate, result, closed>>
         ELSE IF ctx = "cancelled"
           THEN /\ Return(<<>>, TRUE, NilObj, "ErrCanceled")
                /\ UNCHANGED <<hIdx, hstate, fileIdx>>
         ELSE /\ CallHandler(o[hIdx + 1], Len(decoded))
              /\ hIdx' = hIdx + 1
              /\ UNCHANGED <<pc, fileIdx, result, closed>>
    /\ UNCHANGED <<op, patches, base, dirNames, path, files,
                   listErr, opened, cur, eof, o, objects, decoded,
                   oErr>>
    /\ UNCHANGED <<trailing, handlerFn, run, replay, ctx, hobj, hret, pvars>>

\* DecodeEachFile: one iteration of the loop over the file's objects
EachFileHandle ==
    /\ pc = "EachFileHandle"
    /\ IF hIdx = Len(o)
         THEN /\ fileIdx' = fileIdx + 1
              /\ pc' = "EachFileLoop"
              /\ UNCHANGED <<hIdx, hstate>>
         ELSE /\ CallHandler(o[hIdx + 1], Len(decoded))
              /\ hIdx' = hIdx + 1
              /\ UNCHANGED <<pc, fileIdx>>
    /\ UNCHANGED <<op, patches, base, dirNames, path, files,
                   listErr, opened, closed, cur, eof, o, objects, decoded,
                   oErr, result>>
    /\ UNCHANGED <<trailing, handlerFn, run, replay, ctx, hobj, hret, pvars>>

\* the call is made again: same arguments, same files and documents, same
\* Resource Client
Again(start) ==
    /\ run = 1
    /\ pc = "done"
    /\ handlerFn = "CreateIgnoreAlreadyExists"
    /\ result.err = "nil"
    /\ run' = 2
    /\ replay' = decoded
    /\ pc' = start
    /\ result' = NoResult
    /\ decoded' = <<>>
    /\ hcalls' = <<>>
    /\ herrAt' = 0
    /\ clientLog' = <<>>
    /\ mseen' = <<>>
    /\ eof' = {}
    /\ opened' = <<>>
    /\ closed' = {}
    /\ fileIdx' = 0
    /\ hIdx' = 0
    /\ o' = <<>>
    /\ oErr' = "nil"
    /\ UNCHANGED <<op, patches, base, dirNames, path, files, listErr, objects,
                   trailing, handlerFn, ctx, cluster, hseen, hobj, hret, pvars>>

\* DecodeEach(ctx, manifest, defaults, CreateIgnoreAlreadyExists(r),
\* patches...) a second time
CallDecodeEachAgain ==
    /\ op = "DecodeEach"
    /\ cur' = Manifest
    /\ Again("DecodeEach")

\* DecodeEachFile(ctx, filepath, defaults, CreateIgnoreAlreadyExists(r),
\* patches...) a second time: listResourceFiles yields the same sorted list
CallDecodeEachFileAgain ==
    /\ op = "DecodeEachFile"
    /\ cur' = <<>>
    /\ Again("EachFileLoop")

----------------------------------------------------------------------------
(* Specifications *)

Next ==
    \/ CallDecodeAny
    \/ CallDecode
    \/ CallDecodeString
    \/ CallDecodeFile
    \/ DecodeFileDecode
    \/ CallDecodeEach
    \/ DecodeEachIter
    \/ CallDecodeAll
    \/ DecodeAllIter
    \/ CallDecodeObjects
    \/ DecodeObjectsIter
    \/ CallDecodeDocuments
    \/ DecodeDocumentsIter
    \/ CallDecodeListItems
    \/ DecodeListItemsIter
    \/ CallDecodeAllFiles
    \/ AllFilesNext
    \/ AllFilesCollect
    \/ CallDecodeDirectory
    \/ DirectoryNext
    \/ DirectoryCollect
    \/ CallDecodeEachFile
    \/ EachFileNext
    \/ EachFileAfter
    \/ EachFileHandle
    \/ Cancel
    \/ CallDecodeEachAgain
    \/ CallDecodeEachFileAgain

Spec == Init /\ [][Next]_vars

\* listResourceFiles on its own, over every directory content and path
InitList ==
    /\ pc = "list"
    /\ op = "listResourceFiles"
    /\ dirNames \in SUBSET NameUniverse
    /\ path \in PathUniverse
    /\ patches = <<>>
    /\ base = NilObj
    /\ files = <<>>
    /\ listErr = "nil"
    /\ fileIdx = 0
    /\ opened = <<>>
    /\ closed = {}
    /\ cur = <<>>
    /\ eof = {}
    /\ o = <<>>
    /\ objects = <<>>
    /\ hIdx = 0
    /\ decoded = <<>>
    /\ hcalls = <<>>
    /\ herrAt = 0
    /\ oErr = "nil"
    /\ result = NoResult
    /\ trailing = "EOF"
    /\ handlerFn = "fn"
    /\ run = 1
    /\ replay = <<>>
    /\ ctx = "live"
    /\ cluster = {}
    /\ clientLog = <<>>
    /\ hseen = <<>>
    /\ mseen = <<>>
    /\ hobj = NilObj
    /\ hret = "none"
    /\ target = NilObj
    /\ patch = NoPatch
    /\ patched = NoPatched

ListFiles ==
    /\ pc = "list"
    /\ \E ord \in Orders :
        LET l == listResourceFiles(dirNames, path, ord)
        IN /\ files' = l.files
           /\ listErr' = l.err
    /\ pc' = "listed"
    /\ UNCHANGED <<op, patches, base, dirNames, path, fileIdx,
                   opened, closed, cur, eof, o, objects, hIdx, decoded,
                   hcalls, herrAt, oErr, result>>
    /\ UNCHANGED <<trailing, handlerFn, run, replay, ctx, hvars, pvars>>

NextList == ListFiles

SpecList == InitList /\ [][NextList]_vars

\* handlers applied on their own to one object, over every content of the
\* backend
UserErrs == {"ErrHandler", "ErrOther"}
\* objects as the decoders hand them to a handler
ObjConfigMap == DecodeAny(Doc("ConfigMap", Manifest, 1), <<>>).obj
ObjPatched == DecodeAny(Doc("ConfigMap", Manifest, 1), <<Ns, L1>>).obj
ObjWidget == DecodeAny(Doc("Widget", Manifest, 1), <<>>).obj
ObjStatus == UnmarshalUnstructured(Doc("Status", Manifest, 1)).obj
HandlerObjs == {ObjConfigMap, ObjPatched, ObjWidget, ObjStatus}

\* the stored object differs from the manifest: the backend holds other data
Stored(obj) == [Live(obj) EXCEPT !.data = "live"]

InitHandlers ==
    /\ pc = "handler"
    /\ op = ""
    /\ patches = <<>>
    /\ base = NilObj
    /\ dirNames = {}
    /\ path = <<>>
    /\ files = <<>>
    /\ listErr = "nil"
    /\ fileIdx = 0
    /\ opened = <<>>
    /\ closed = {}
    /\ cur = <<>>
    /\ eof = {}
    /\ o = <<>>
    /\ objects = <<>>
    /\ hIdx = 0
    /\ decoded = <<>>
    /\ hcalls = <<>>
    /\ herrAt = 0
    /\ oErr = "nil"
    /\ result = NoResult
    /\ trailing = "EOF"
    /\ handlerFn = "fn"
    /\ run = 1
    /\ replay = <<>>
    /\ ctx = "live"
    /\ cluster \in SUBSET {Stored(ObjConfigMap), Stored(ObjPatched), Stored(ObjWidget)}
    /\ clientLog = <<>>
    /\ hseen = <<>>
    /\ mseen = <<>>
    /\ hobj = NilObj
    /\ hret = "none"
    /\ target = NilObj
    /\ patch = NoPatch
    /\ patched = NoPatched

\* the handler name(ctx, obj) returned r
Handled(name, obj, r) ==
    /\ pc' = "handled"
    /\ handlerFn' = name
    /\ hobj' = obj
    /\ hret' = r.err
    /\ cluster' = r.w.cluster
    /\ clientLog' = r.w.log
    /\ hseen' = r.w.hseen
    /\ mseen' = r.w.mseen
    /\ UNCHANGED <<dvars, trailing, run, replay, ctx, pvars>>

InvokeCreateHandler ==
    /\ pc = "handler"
    /\ \E obj \in HandlerObjs, f \in ClientFaults :
        Handled("CreateHandler", obj, CreateHandler(obj, World(FaultOn("Create", f))))

InvokeUpdateHandler ==
    /\ pc = "handler"
    /\ \E obj \in HandlerObjs, f \in ClientFaults :
        Handled("UpdateHandler", obj, UpdateHandler(obj, World(FaultOn("Update", f))))

InvokeDeleteHandler ==
    /\ pc = "handler"
    /\ \E obj \in HandlerObjs, f \in ClientFaults :
        Handled("DeleteHandler", obj, DeleteHandler(obj, World(FaultOn("Delete", f))))

InvokeNoopHandler ==
    /\ pc = "handler"
    /\ \E obj \in HandlerObjs :
        Handled("NoopHandler", obj, NoopHandler(obj, World(NoFault)))

InvokeGetHandler ==
    /\ pc = "handler"
    /\ \E obj \in HandlerObjs, f \in ClientFaults, ret \in UserErrs \cup {"nil"} :
        Handled("GetHandler", obj,
                GetHandler(<<UserFn(ret)>>, obj, World(FaultOn("Get", f))))

InvokeIgnoreErrorHandler ==
    /\ pc = "handler"
    /\ \E obj \in HandlerObjs, ret \in UserErrs \cup {"nil"}, matched \in SUBSET UserErrs :
        Handled("IgnoreErrorHandler", obj,
                IgnoreErrorHandler(<<UserFn(ret)>>, matched, obj, World(NoFault)))

InvokeCreateIgnoreAlreadyExists ==
    /\ pc = "handler"
    /\ \E obj \in HandlerObjs, f \in ClientFaults :
        Handled("CreateIgnoreAlreadyExists", obj,
                CreateIgnoreAlreadyExists(obj, World(FaultOn("Create", f))))

InvokeDeleteIgnoreNotFound ==
    /\ pc = "handler"
    /\ \E obj \in HandlerObjs, f \in ClientFaults, v \in {"Create", "Delete"} :
        Handled("DeleteIgnoreNotFound", obj,
                DeleteIgnoreNotFound(obj, World(FaultOn(v, f))))

NextHandlers ==
    \/ InvokeCreateHandler
    \/ InvokeUpdateHandler
    \/ InvokeDeleteHandler
    \/ InvokeNoopHandler
    \/ InvokeGetHandler
    \/ InvokeIgnoreErrorHandler
    \/ InvokeCreateIgnoreAlreadyExists
    \/ InvokeDeleteIgnoreNotFound

SpecHandlers == InitHandlers /\ [][NextHandlers]_vars

\* one MutateFunc applied on its own to one object
LabelMaps ==
    {NilMap, MapOf(<<>>), MapOf("k" :> "old"), MapOf("j" :> "keep"),
     MapOf("j" :> "keep" @@ "k" :> "old")}
AnnotationMaps == {NilMap, MapOf("j" :> "keep"), MapOf("k" :> "old")}

Targets ==
    {[NilObj EXCEPT !.rep = r, !.kind = "ConfigMap", !.labels = l, !.annotations = a] :
        r \in {"typed", "unstructured"}, l \in LabelMaps, a \in AnnotationMaps}

MutateFuncs ==
    {L1, L2, An, Ns, OwnerOk, OwnerBad, PatchLabels(<<>>),
     PatchLabels("k" :> "v1" @@ "n" :> "new")}

InitPatch ==
    /\ pc = "patch"
    /\ op = ""
    /\ patches = <<>>
    /\ base = NilObj
    /\ dirNames = {}
    /\ path = <<>>
    /\ files = <<>>
    /\ listErr = "nil"
    /\ fileIdx = 0
    /\ opened = <<>>
    /\ closed = {}
    /\ cur = <<>>
    /\ eof = {}
    /\ o = <<>>
    /\ objects = <<>>
    /\ hIdx = 0
    /\ decoded = <<>>
    /\ hcalls = <<>>
    /\ herrAt = 0
    /\ oErr = "nil"
    /\ result = NoResult
    /\ trailing = "EOF"
    /\ handlerFn = "fn"
    /\ run = 1
    /\ replay = <<>>
    /\ ctx = "live"
    /\ cluster = {}
    /\ clientLog = <<>>
    /\ hseen = <<>>
    /\ mseen = <<>>
    /\ hobj = NilObj
    /\ hret = "none"
    /\ target \in Targets
    /\ patch = NoPatch
    /\ patched = NoPatched

\* patch(obj)
ApplyPatch ==
    /\ pc = "patch"
    /\ \E p \in MutateFuncs :
        /\ patch' = p
        /\ patched' = CallPatch(p, target)
    /\ pc' = "patched"
    /\ UNCHANGED <<dvars, trailing, handlerFn, run, replay, ctx, hvars, target>>

NextPatch == ApplyPatch

SpecPatch == InitPatch /\ [][NextPatch]_vars

----------------------------------------------------------------------------
(* The directory helpers of klient/k8s/yaml (yaml.go) *)

\* listResourceFiles of package yaml: the matches of *.yaml, then those of
\* *.yml, then those of *.json
yamlListResourceFiles(names, directory, order) ==
    [files |-> Glob(names, directory, <<>>, ExtYaml, order)
               \o (Glob(names, directory, <<>>, ExtYml, order)
                   \o Glob(names, directory, <<>>, ExtJson, order)),
     err |-> "nil"]

\* LoadUnstructuredYAML(filename): ioutil.ReadFile, then yaml.Unmarshal into
\* an unstructured.Unstructured.  item is what the file holds: one document,
\* or nothing that can be read
LoadUnstructuredYAML(filename, item) ==
    IF item = "ReadErr" THEN [obj |-> NilObj, err |-> "ErrRead"]
    ELSE UnmarshalUnstructured(Doc(item, filename, 1))

\* the directories given to the helpers
YamlDirs == {{}, {AYaml, BYml, CJson}, {BYml, AaJson, BTxt}, {AYaml, AaJson}, NameUniverse}

YamlOps ==
    {"LoadUnstructuredYAMLDirectory", "CreateResourcesFromYAMLDirectory",
     "DeleteResourcesFromYAMLDirectory"}

InitYaml ==
    /\ pc = "yaml"
    /\ op = ""
    /\ patches = <<>>
    /\ base = NilObj
    /\ dirNames \in YamlDirs
    /\ path \in {<<DirD>>, <<NoDir>>}
    /\ files = <<>>
    /\ listErr = "nil"
    /\ fileIdx = 0
    /\ opened = <<>>
    /\ closed = {}
    /\ cur = <<>>
    /\ eof = {}
    /\ o = <<>>
    /\ objects = <<>>
    /\ hIdx = 0
    /\ decoded = <<>>
    /\ hcalls = <<>>
    /\ herrAt = 0
    /\ oErr = "nil"
    /\ result = NoResult
    /\ trailing = "EOF"
    /\ handlerFn = "fn"
    /\ run = 1
    /\ replay = <<>>
    /\ ctx = "live"
    /\ cluster \in
          {{},
           {Live([UnmarshalUnstructured(Doc("ConfigMap", <<DirD, f>>, 1)).obj
                     EXCEPT !.ns = "ns"]) : f \in {BYml, AaJson}}}
    /\ clientLog = <<>>
    /\ hseen = <<>>
    /\ mseen = <<>>
    /\ hobj = NilObj
    /\ hret = "none"
    /\ target = NilObj
    /\ patch = NoPatch
    /\ patched = NoPatched

\* one of the directory helpers is called: files, err :=
\* listResourceFiles(directory)
CallYamlDirectory ==
    /\ pc = "yaml"
    /\ \E name \in YamlOps, ord \in Orders :
        LET l == yamlListResourceFiles(dirNames, path, ord)
        IN /\ op' = name
           /\ files' = l.files
           /\ listErr' = l.err
    /\ pc' = "yamlLoop"
    /\ UNCHANGED <<patches, base, dirNames, path, fileIdx, opened, closed, cur,
                   eof, o, objects, hIdx, decoded, hcalls, herrAt, oErr, result>>
    /\ UNCHANGED <<trailing, handlerFn, run, replay, ctx, hvars, pvars>>

\* the helper returns
YamlReturn(objs, isNil, err, file) ==
    /\ pc' = "done"
    /\ result' = [objs |-> objs, isNil |-> isNil, obj |-> NilObj, err |-> err,
                  epath |-> file]

\* LoadUnstructuredYAMLDirectory: one iteration of the range loop, or what
\* follows the loop
LoadDirectoryIter ==
    /\ pc = "yamlLoop"
    /\ op = "LoadUnstructuredYAMLDirectory"
    /\ IF fileIdx = Len(files)
         THEN /\ IF objects = <<>>
                   THEN YamlReturn(<<>>, TRUE, "ErrNoFiles", path)
                   ELSE YamlReturn(objects, FALSE, "nil", <<>>)
              /\ UNCHANGED <<fileIdx, opened, objects, decoded>>
         ELSE \E item \in {"ConfigMap", "Widget", "Malformed", "ReadErr"} :
                LET file == files[fileIdx + 1]
                    r == LoadUnstructuredYAML(file, item)
                IN /\ opened' = Append(opened, file)
                   /\ decoded' = IF item = "ReadErr" THEN decoded
                                 ELSE Append(decoded, LogEntry(Doc(item, file, 1), NoPatchLog))
                   /\ IF r.err # "nil"
                        THEN /\ YamlReturn(objects, FALSE, r.err, file)
                             /\ UNCHANGED <<fileIdx, objects>>
                        ELSE /\ objects' = Append(objects, r.obj)
                             /\ fileIdx' = fileIdx + 1
                             /\ UNCHANGED <<pc, result>>
    /\ UNCHANGED <<op, patches, base, dirNames, path, files, listErr, closed, cur,
                   eof, o, hIdx, hcalls, herrAt, oErr>>
    /\ UNCHANGED <<trailing, handlerFn, run, replay, ctx, hvars, pvars>>

\* CreateResourcesFromYAMLDirectory: one iteration of the range loop, that
\* is one call of CreateResourceFromYAML, or the return after the loop
CreateDirectoryIter ==
    /\ pc = "yamlLoop"
    /\ op = "CreateResourcesFromYAMLDirectory"
    /\ IF fileIdx = Len(files)
         THEN /\ YamlReturn(<<>>, TRUE, "nil", <<>>)
              /\ UNCHANGED <<fileIdx, opened, decoded, cluster, clientLog>>
         ELSE \E item \in {"ConfigMap", "Widget", "Malformed", "ReadErr"}, f \in ClientFaults :
                LET file == files[fileIdx + 1]
                    l == LoadUnstructuredYAML(file, item)
                    obj == [l.obj EXCEPT !.ns = "ns"]
                    r == ClientCreate(cluster, obj, f)
                    err == IF l.err # "nil" THEN l.err ELSE r.err
                IN /\ l.err # "nil" => f = "nil"
                   /\ opened' = Append(opened, file)
                   /\ decoded' = IF item = "ReadErr" THEN decoded
                                 ELSE Append(decoded, LogEntry(Doc(item, file, 1), NoPatchLog))
                   /\ IF l.err # "nil"
                        THEN UNCHANGED <<cluster, clientLog>>
                        ELSE /\ cluster' = r.cluster
                             /\ clientLog' = Append(clientLog,
                                    [verb |-> "Create", obj |-> obj, err |-> r.err])
                   /\ IF err # "nil"
                        THEN /\ YamlReturn(<<>>, TRUE, err, file)
                             /\ fileIdx' = fileIdx
                        ELSE /\ fileIdx' = fileIdx + 1
                             /\ UNCHANGED <<pc, result>>
    /\ UNCHANGED <<op, patches, base, dirNames, path, files, listErr, closed, cur,
                   eof, o, objects, hIdx, hcalls, herrAt, oErr>>
    /\ UNCHANGED <<trailing, handlerFn, run, replay, ctx, hseen, mseen, hobj, hret,
                   pvars>>

\* DeleteResourcesFromYAMLDirectory: one iteration of the range loop, that
\* is one call of DeleteResourceFromYAML, or the return after the loop
DeleteDirectoryIter ==
    /\ pc = "yamlLoop"
    /\ op = "DeleteResourcesFromYAMLDirectory"
    /\ IF fileIdx = Len(files)
         THEN /\ YamlReturn(<<>>, TRUE, "nil", <<>>)
              /\ UNCHANGED <<fileIdx, opened, decoded, cluster, clientLog>>
         ELSE \E item \in {"ConfigMap", "Widget", "Malformed", "ReadErr"}, f \in ClientFaults :
                LET file == files[fileIdx + 1]
                    l == LoadUnstructuredYAML(file, item)
                    obj == [l.obj EXCEPT !.ns = "ns"]
                    r == ClientDelete(cluster, obj, f)
                    err == IF l.err # "nil" THEN l.err ELSE r.err
                IN /\ l.err # "nil" => f = "nil"
                   /\ opened' = Append(opened, file)
                   /\ decoded' = IF item = "ReadErr" THEN decoded
                                 ELSE Append(decoded, LogEntry(Doc(item, file, 1), NoPatchLog))
                   /\ IF l.err # "nil"
                        THEN UNCHANGED <<cluster, clientLog>>
                        ELSE /\ cluster' = r.cluster
                             /\ clientLog' = Append(clientLog,
                                    [verb |-> "Delete", obj |-> obj, err |-> r.err])
                   /\ IF err # "nil"
                        THEN /\ YamlReturn(<<>>, TRUE, err, file)
                             /\ fileIdx' = fileIdx
                        ELSE /\ fileIdx' = fileIdx + 1
                             /\ UNCHANGED <<pc, result>>
    /\ UNCHANGED <<op, patches, base, dirNames, path, files, listErr, closed, cur,
                   eof, o, objects, hIdx, hcalls, herrAt, oErr>>
    /\ UNCHANGED <<trailing, handlerFn, run, replay, ctx, hseen, mseen, hobj, hret,
                   pvars>>

NextYaml ==
    \/ CallYamlDirectory
    \/ LoadDirectoryIter
    \/ CreateDirectoryIter
    \/ DeleteDirectoryIter

SpecYaml == InitYaml /\ [][NextYaml]_vars

----------------------------------------------------------------------------
(* Properties *)

Done == pc = "done"

NamesOf(objs) == [i \in 1..Len(objs) |-> objs[i].name]
DocNames(log) == [i \in 1..Len(log) |-> log[i].doc.name]
HandledObjs == [i \in 1..Len(hcalls) |-> hcalls[i].obj]

\* every document read resolves to an object
AllDecodable == \A i \in 1..Len(decoded) : decoded[i].doc.kind \in {"ConfigMap", "Widget"}

\* no patch of the chain returned an error
NoPatchFailed == \A i \in 1..Len(decoded) : decoded[i].perr = 0

\* the documents were read file by file in ascending path order, and in
\* document order within a file
InFileThenDocumentOrder(names) ==
    \A i, j \in 1..Len(names) :
        i < j => \/ PathLess(names[i].src, names[j].src)
                 \/ names[i].src = names[j].src /\ names[i].idx < names[j].idx

\* C1: DecodeEach on N decodable documents invokes handlerFn once per
\* document in document order and returns nil when every invocation
\* succeeds; once an invocation returns an error, handlerFn is not invoked
\* again and DecodeEach returns the handler's error.
C1_DecodeEachHaltsOnHandlerError ==
    op = "DecodeEach" =>
        /\ herrAt # 0 => Len(hcalls) = herrAt
        /\ Done /\ herrAt # 0 => result.err = "ErrHandler"
        /\ Done /\ herrAt = 0 /\ Manifest \in eof /\ AllDecodable =>
              /\ result.err = "nil"
              /\ NamesOf(HandledObjs) = DocNames(decoded)

\* C2: DecodeEachFile dispatches across file boundaries in resolved file
\* order; once a handler invocation returns an error no further object is
\* passed to the handler, no further file is opened or decoded, and
\* DecodeEachFile returns the handler's error.
C2_DecodeEachFileHaltsOnHandlerError ==
    op = "DecodeEachFile" =>
        /\ herrAt # 0 =>
              /\ Len(hcalls) = herrAt
              /\ Len(opened) = hcalls[herrAt].nopened
              /\ Len(decoded) = hcalls[herrAt].ndecoded
        /\ Done /\ herrAt # 0 => result.err = "ErrHandler"
        /\ Done /\ herrAt = 0 /\ result.err = "nil" /\ AllDecodable =>
              /\ NamesOf(HandledObjs) = DocNames(decoded)
              /\ InFileThenDocumentOrder(DocNames(decoded))

\* the objects a finished call handed out as successes
Delivered ==
    Range(HandledObjs)
    \cup (IF Done /\ result.err = "nil" THEN Range(result.objs) ELSE {})
    \cup (IF Done /\ result.err = "nil" /\ op \in {"DecodeAny", "Decode"}
            THEN {result.obj} ELSE {})

\* C3: in every decode operation the first MutateFunc that returns an error
\* aborts the chain: no later patch is applied to the object, the object is
\* neither returned as a success nor handled, no further document is
\* decoded, and the operation returns the patch's error.
C3_PatchErrorAborts ==
    \A i \in 1..Len(decoded) :
        decoded[i].perr # 0 =>
            /\ decoded[i].applied = [k \in 1..decoded[i].perr |-> k]
            /\ i = Len(decoded)
            /\ \A d \in Delivered : d.name # decoded[i].doc.name
            /\ Done => result.err = "ErrPatch"

\* the indices of the patches of the chain that are MutateLabels writing key
WritersOf(key) ==
    {i \in 1..Len(patches) :
        patches[i].fn = "MutateLabels" /\ key \in DOMAIN patches[i].kv}

Max(S) == CHOOSE x \in S : \A y \in S : y <= x

\* C4: when no patch fails, every object returned or handled has had every
\* patch applied exactly once in chain order before it is returned or
\* handled, so when two patches write the same label key the object carries
\* the value of the later one.
C4_PatchesInOrderLastWins ==
    (op \in {"DecodeAll", "DecodeAllFiles", "DecodeObjects", "DecodeEach",
             "DecodeEachFile"} /\ NoPatchFailed) =>
        /\ \A i \in 1..Len(decoded) :
              (\E d \in Delivered : d.name = decoded[i].doc.name) =>
                  decoded[i].applied = [k \in 1..Len(patches) |-> k]
        /\ \A d \in Delivered :
              d.rep # "nil" /\ Cardinality(WritersOf("k")) >= 2 =>
                  /\ ~d.labels.isNil
                  /\ "k" \in DOMAIN d.labels.m
                  /\ d.labels.m["k"] = patches[Max(WritersOf("k"))].kv["k"]

\* C5 as stated: when the (K+1)-th document of a collect-variant decode
\* fails to decode, the K objects gathered before are returned with the
\* error.
C5_PartialResultsReturned ==
    (op \in {"DecodeAll", "DecodeAllFiles"} /\ Done /\ result.err = "ErrDecode"
     /\ \A i \in 1..(Len(decoded) - 1) : decoded[i].doc.kind \in {"ConfigMap", "Widget"}) =>
        NamesOf(result.objs) = SubSeq(DocNames(decoded), 1, Len(decoded) - 1)

\* C5 amended: when the (K+1)-th document of a collect-variant decode fails
\* to decode, the operation stops at that document and returns the error
\* with a nil result; the K objects gathered before are discarded.
C5_DecodeFailureDiscardsResults ==
    (op \in {"DecodeAll", "DecodeAllFiles"} /\ Done /\ result.err = "ErrDecode") =>
        /\ result.isNil
        /\ result.objs = <<>>
        /\ decoded # <<>>
        /\ decoded[Len(decoded)].doc.kind = "Malformed"
        /\ \A i \in 1..(Len(decoded) - 1) : decoded[i].doc.kind # "Malformed"

C5_Witness ==
    /\ op = "DecodeAllFiles"
    /\ Done
    /\ result.err = "ErrDecode"
    /\ result.isNil
    /\ Len(decoded) = 3
    /\ fileIdx = 1
    /\ AllDecodable = FALSE
    /\ \A i \in 1..2 : decoded[i].doc.kind = "ConfigMap"

\* C6: DecodeAny on a well-formed document of an unregistered kind returns
\* no error and an unstructured object that carries the document's content,
\* its spec included, unchanged.
C6_UnregisteredKindFallsBack ==
    (op = "DecodeAny" /\ Done /\ decoded # <<>> /\ decoded[1].doc.kind = "Widget") =>
        /\ result.err = "nil"
        /\ result.obj.rep = "unstructured"
        /\ result.obj.spec = decoded[1].doc.spec
        /\ result.obj.data = decoded[1].doc.data
        /\ result.obj.kind = decoded[1].doc.kind
        /\ result.obj.name = decoded[1].doc.name
        /\ patches = <<>> =>
              /\ result.obj.labels = NilMap
              /\ result.obj.annotations = NilMap
              /\ result.obj.ns = ""
              /\ result.obj.owner = ""

C6_Witness ==
    /\ op = "DecodeAny"
    /\ Done
    /\ decoded # <<>>
    /\ decoded[1].doc.kind = "Widget"
    /\ result.err = "nil"
    /\ result.obj.rep = "unstructured"
    /\ result.obj.spec = "value"

\* C7: a collect-variant decode (DecodeAll, DecodeObjects) of a stream of N
\* decodable documents returns N objects, the i-th decoded from the i-th
\* document, and no error; a stream with no document yields an empty
\* sequence and no error.
C7_CollectReturnsAllInOrder ==
    (op \in {"DecodeAll", "DecodeObjects"} /\ Done /\ Manifest \in eof
     /\ (op = "DecodeAll" => AllDecodable)) =>
        /\ result.err = "nil"
        /\ ~result.isNil
        /\ Len(result.objs) = Len(decoded)
        /\ \A i \in 1..Len(decoded) :
              /\ result.objs[i].name = decoded[i].doc.name
              /\ result.objs[i].kind = decoded[i].doc.kind
              /\ result.objs[i].data = decoded[i].doc.data

C7_Witness ==
    /\ op = "DecodeAll"
    /\ Done
    /\ Manifest \in eof
    /\ Len(decoded) = 3
    /\ AllDecodable
    /\ result.err = "nil"
    /\ NamesOf(result.objs) = DocNames(decoded)

\* C8: DecodeAllFiles returns the concatenation, over the resolved files in
\* ascending path order, of each file's objects in document order: its
\* length is the sum of the files' document counts.
C8_AllFilesConcatenatesInFileOrder ==
    (op = "DecodeAllFiles" /\ Done /\ result.err = "nil" /\ AllDecodable) =>
        /\ ~result.isNil
        /\ Range(files) \subseteq eof
        /\ Len(result.objs) = Len(decoded)
        /\ NamesOf(result.objs) = DocNames(decoded)
        /\ InFileThenDocumentOrder(NamesOf(result.objs))
        /\ \A i \in 1..Len(result.objs) :
              result.objs[i].name.src \in Range(files)

\* a.yaml with 1 document, b.yml with 2, c.json with 1: 4 objects in the
\* order a, b(doc1), b(doc2), c
C8_Witness ==
    /\ op = "DecodeAllFiles"
    /\ Done
    /\ result.err = "nil"
    /\ dirNames = {AYaml, BYml, CJson}
    /\ path = <<DirD>>
    /\ AllDecodable
    /\ NamesOf(result.objs) =
          << [src |-> <<DirD, AYaml>>, idx |-> 1],
             [src |-> <<DirD, BYml>>, idx |-> 1],
             [src |-> <<DirD, BYml>>, idx |-> 2],
             [src |-> <<DirD, CJson>>, idx |-> 1] >>

\* the directory listResourceFiles globs in, and the filename prefix
TargetDir == IF Stat(dirNames, path) = "absent" THEN SubSeq(path, 1, Len(path) - 1) ELSE path
TargetBase == IF Stat(dirNames, path) = "absent" THEN path[Len(path)] ELSE <<>>

Exts == {ExtYaml, ExtYml, ExtJson}

Sorted(s) == \A i, j \in 1..Len(s) : i < j => PathLess(s[i], s[j])

C10_ListErrorBeforeAnyWork ==
    (op \in {"DecodeAllFiles", "DecodeEachFile"}
     /\ \/ Stat(dirNames, path) = "file"
        \/ /\ Stat(dirNames, path) = "absent"
           /\ ~isDirectory(dirNames, SubSeq(path, 1, Len(path) - 1))) =>
        /\ listErr # "nil"
        /\ files = <<>>
        /\ Done
        /\ result.err = listErr
        /\ result.isNil
        /\ opened = <<>>
        /\ decoded = <<>>
        /\ hcalls = <<>>

C10_Witness ==
    /\ op = "DecodeEachFile"
    /\ Done
    /\ Stat(dirNames, path) = "file"
    /\ result.err = "ErrNotDirectory"
    /\ opened = <<>>

\* the path is prefix-style (absent, parent a directory) and no file of the
\* parent starts with the base name and has a recognized extension
PrefixMatchesNoFile ==
    /\ Stat(dirNames, path) = "absent"
    /\ isDirectory(dirNames, TargetDir)
    /\ ~\E e \in Entries(dirNames, TargetDir), x \in Exts : Match(e, TargetBase, x)

\* C11: when a prefix-style path matches no file, DecodeAllFiles and
\* DecodeEachFile report a resolution error, with no partial result and no
\* handler invocation, instead of succeeding with an empty result.
C11_NoMatchReportsError ==
    (op \in {"DecodeAllFiles", "DecodeEachFile"} /\ PrefixMatchesNoFile /\ Done) =>
        /\ result.err # "nil"
        /\ result.isNil
        /\ result.objs = <<>>
        /\ hcalls = <<>>

Handled1(name) == pc = "handled" /\ handlerFn = name

\* C12: IgnoreErrorHandler(h, matcher) invokes h exactly once, on the object
\* it was given; it returns nil when h succeeds, without consulting matcher;
\* when h fails it consults matcher on h's error and returns nil if matcher
\* answers true and h's error unchanged if it answers false.
C12_IgnoreErrorHandler ==
    Handled1("IgnoreErrorHandler") =>
        /\ Len(hseen) = 1
        /\ hseen[1].obj = hobj
        /\ hseen[1].ret = "nil" => (hret = "nil" /\ mseen = <<>>)
        /\ hseen[1].ret # "nil" =>
              /\ Len(mseen) = 1
              /\ mseen[1].err = hseen[1].ret
              /\ hret = IF mseen[1].ok THEN "nil" ELSE hseen[1].ret

C12_Witness ==
    /\ Handled1("IgnoreErrorHandler")
    /\ hseen[1].ret = "ErrOther"
    /\ mseen = <<[err |-> "ErrOther", ok |-> FALSE]>>
    /\ hret = "ErrOther"

\* C14: the handler DeleteIgnoreNotFound returns invokes the Resource
\* Client's delete on the object, never create or update, and returns nil
\* when the delete succeeds or fails with 'not found', the delete's error
\* otherwise.
C14_DeleteIgnoreNotFoundDeletes ==
    Handled1("DeleteIgnoreNotFound") =>
        /\ Len(clientLog) = 1
        /\ clientLog[1].verb = "Delete"
        /\ clientLog[1].obj = hobj
        /\ hret = IF clientLog[1].err \in {"nil", "NotFound"} THEN "nil"
                  ELSE clientLog[1].err

\* the registry maps the kind of the object to a type that is an Object
Gettable(obj) ==
    /\ SchemeNew(obj.kind).err = "nil"
    /\ SchemeNew(obj.kind).obj.rep = "typed"

\* C15: GetHandler(r, h) gets the stored object of the decoded object's
\* kind, name and namespace and calls h once with that stored object, not
\* with the decoded one, returning h's result; when the registry has no
\* object type for the kind, or the Get fails, h is not invoked and an error
\* is returned.
C15_GetHandlerDelegatesLiveObject ==
    Handled1("GetHandler") =>
        /\ \A i \in 1..Len(clientLog) : clientLog[i].verb = "Get"
        /\ ~Gettable(hobj) =>
              /\ clientLog = <<>>
              /\ hseen = <<>>
              /\ hret \notin {"nil", "none"}
        /\ Gettable(hobj) =>
              /\ Len(clientLog) = 1
              /\ Key(clientLog[1].obj) = Key(hobj)
              /\ clientLog[1].err # "nil" =>
                    /\ hseen = <<>>
                    /\ hret = clientLog[1].err
              /\ clientLog[1].err = "nil" =>
                    /\ Len(hseen) = 1
                    /\ hseen[1].obj \in cluster
                    /\ Key(hseen[1].obj) = Key(hobj)
                    /\ hseen[1].obj # hobj
                    /\ hret = hseen[1].ret

C15_Witness ==
    /\ Handled1("GetHandler")
    /\ hobj = ObjPatched
    /\ clientLog = <<[verb |-> "Get", obj |-> [NilObj EXCEPT !.rep = "typed",
                          !.kind = "ConfigMap", !.name = ObjPatched.name, !.ns = "ns"],
                      err |-> "nil"]>>
    /\ hseen = <<[obj |-> Stored(ObjPatched), ret |-> "ErrHandler"]>>
    /\ hret = "ErrHandler"

\* the errors the creates of the current run failed with, 'already exists'
\* apart
OtherCreateErrs ==
    {clientLog[i].err : i \in 1..Len(clientLog)} \ {"nil", "AlreadyExists"}

\* C13: a second DecodeEach / DecodeEachFile with CreateIgnoreAlreadyExists
\* over the same documents and the same Resource Client offers each object
\* to create exactly once, returns no error when the creates fail with
\* 'already exists' only, and returns the error of a create that fails in
\* any other way.
C13_CreateIgnoreAlreadyExistsRerun ==
    (op \in {"DecodeEach", "DecodeEachFile"} /\ run = 2 /\ Done
     /\ handlerFn = "CreateIgnoreAlreadyExists") =>
        /\ Len(clientLog) = Len(hcalls)
        /\ \A i \in 1..Len(clientLog) :
              /\ clientLog[i].verb = "Create"
              /\ clientLog[i].obj = hcalls[i].obj
        /\ (AllDecodable /\ result.err = "nil") =>
              NamesOf(HandledObjs) = DocNames(replay)
        /\ (AllDecodable /\ OtherCreateErrs = {}) =>
              result.err \in {"nil", "ErrRead", "ErrOpen"}
        /\ OtherCreateErrs # {} => result.err \in OtherCreateErrs

Patched(fn) == pc = "patched" /\ patch.fn = fn

\* m holds every entry of overrides, and every entry of before whose key
\* overrides does not have
Merged(m, before, overrides) ==
    /\ \A k \in DOMAIN overrides : k \in DOMAIN m /\ m[k] = overrides[k]
    /\ \A k \in (DOMAIN before) \ (DOMAIN overrides) : k \in DOMAIN m /\ m[k] = before[k]

\* C16: after MutateAnnotations(overrides) the object's annotation map
\* holds every override and every annotation it had whose key is not
\* overridden; an object without an annotation map gets one holding exactly
\* the overrides.
C16_MutateAnnotationsMerges ==
    Patched("MutateAnnotations") =>
        /\ ~patched.err
        /\ ~patched.obj.annotations.isNil
        /\ Merged(patched.obj.annotations.m, target.annotations.m, patch.kv)
        /\ target.annotations.isNil => patched.obj.annotations.m = patch.kv

\* C17: after MutateLabels(overrides) a typed object's label map holds
\* every override and every label it had whose key is not overridden, a
\* map being created when the object had none; the patch returns no error,
\* leaves overrides as it was and changes nothing else of the object.
C17_MutateLabelsMergesTyped ==
    (Patched("MutateLabels") /\ target.rep = "typed") =>
        /\ ~patched.err
        /\ ~patched.obj.labels.isNil
        /\ Merged(patched.obj.labels.m, target.labels.m, patch.kv)
        /\ DOMAIN patched.obj.labels.m = (DOMAIN target.labels.m) \cup (DOMAIN patch.kv)
        /\ patched.overrides = patch.kv
        /\ [patched.obj EXCEPT !.labels = target.labels] = target

C17_Witness ==
    /\ Patched("MutateLabels")
    /\ target.rep = "typed"
    /\ target.labels = MapOf("j" :> "keep" @@ "k" :> "old")
    /\ patch.kv = ("k" :> "v1" @@ "n" :> "new")
    /\ patched.obj.labels = MapOf("j" :> "keep" @@ "k" :> "v1" @@ "n" :> "new")

SingleDecodes == {"Decode", "DecodeFile", "DecodeString"}

\* C19: Decode, DecodeFile and DecodeString decode exactly the first
\* document of the input into the caller's object and apply the patches to
\* it, whatever follows that document: trailing content is neither decoded
\* nor reported; an input without any document yields an error and no patch
\* is applied.
C19_DecodeFirstDocumentOnly ==
    (op \in SingleDecodes /\ Done) =>
        /\ Len(decoded) <= 1
        /\ (decoded # <<>> /\ decoded[1].doc.kind \in DocKinds) =>
              /\ result.err = "nil"
              /\ result.obj.name = [src |-> cur, idx |-> 1]
              /\ result.obj.kind = decoded[1].doc.kind
              /\ decoded[1].applied = [k \in 1..Len(patches) |-> k]
              /\ (\E k \in 1..Len(patches) : patches[k] = Ns) => result.obj.ns = "ns"
        /\ cur \in eof =>
              /\ decoded = <<>>
              /\ result.err = "ErrEOF"
              /\ result.obj = base

C19_Witness ==
    /\ op = "DecodeFile"
    /\ Done
    /\ trailing = "Malformed"
    /\ patches = <<Ns, L1>>
    /\ base = BaseConfigMap
    /\ result.err = "nil"
    /\ result.obj.name = [src |-> ManifestPath, idx |-> 1]
    /\ result.obj.ns = "ns"
    /\ Len(decoded) = 1

Has(p) == \E k \in 1..Len(patches) : patches[k] = p

\* the effects of the chain that an object shows when every patch ran on it
\* before it was stored
ReflectsPatches(obj) ==
    /\ Has(Ns) => obj.ns = "ns"
    /\ Has(OwnerOk) => obj.owner = "owner"
    /\ (obj.rep = "typed" /\ WritersOf("k") # {} /\ ~Has(An)) =>
          /\ ~obj.labels.isNil
          /\ obj.labels.m = ("k" :> patches[Max(WritersOf("k"))].kv["k"])

\* C18: DecodeListItems on a stream of N decodable documents appends
\* exactly N items to the items the list holds, in document order, each
\* appended after every patch was applied to it, so that the stored item
\* shows the patches; for 2 documents the list gains exactly 2 items.
C18_ListItemsAppendedPatched ==
    (op = "DecodeListItems" /\ Done /\ Manifest \in eof) =>
        LET n == Len(result.objs) - Len(decoded)
        IN /\ result.err = "nil"
           /\ n \in {0, 1}
           /\ \A i \in 1..n : result.objs[i] = PreItem(base)
           /\ \A i \in 1..Len(decoded) :
                 /\ result.objs[n + i].name = decoded[i].doc.name
                 /\ result.objs[n + i].kind = decoded[i].doc.kind
                 /\ decoded[i].applied = [k \in 1..Len(patches) |-> k]
                 /\ ReflectsPatches(result.objs[n + i])

C18_Witness ==
    /\ op = "DecodeListItems"
    /\ Done
    /\ Manifest \in eof
    /\ base = BaseConfigMap
    /\ patches = <<Ns, L1>>
    /\ Len(decoded) = 2
    /\ Len(result.objs) = 2
    /\ NamesOf(result.objs) = DocNames(decoded)
    /\ \A i \in 1..2 : /\ result.objs[i].ns = "ns"
                        /\ result.objs[i].labels = MapOf("k" :> "v1")

\* the objects the call has produced so far, one per decoded document
Produced ==
    IF op = "DecodeDocuments" THEN HandledObjs
    ELSE IF op = "DecodeListItems"
      THEN SelectSeq(o, LAMBDA x : x.name.idx # 0)
    ELSE o

\* C20: DecodeObjects, DecodeDocuments and DecodeListItems decode every
\* document into a fresh copy of the base object: the base object is left
\* as the caller passed it, and each object produced is what its own
\* document and the patches make of the base, with nothing of an earlier
\* document or object in it.
C20_FreshCopyPerDocument ==
    (op \in {"DecodeObjects", "DecodeDocuments", "DecodeListItems"}
     /\ pc \in {op, "done"} /\ (Done => result.err = "nil")) =>
        /\ base \in Bases
        /\ \A i \in 1..Len(Produced) :
              /\ i <= Len(decoded)
              /\ Produced[i].name = decoded[i].doc.name
              /\ Produced[i].kind = decoded[i].doc.kind
              /\ Produced[i].data = decoded[i].doc.data
              /\ Produced[i].spec =
                    IF base.rep = "typed" THEN "" ELSE decoded[i].doc.spec
              /\ Produced[i] =
                    ApplyPatches(patches, DecodeInto(base, decoded[i].doc).obj).obj

C20_Witness ==
    /\ op = "DecodeObjects"
    /\ Done
    /\ base = BaseConfigMap
    /\ patches = <<L1>>
    /\ Len(decoded) = 2
    /\ decoded[1].doc.kind = "ConfigMap"
    /\ decoded[2].doc.kind = "Widget"
    /\ Len(result.objs) = 2
    /\ result.objs[1].data = "foo"
    /\ result.objs[2].data = ""
    /\ result.objs[2].labels = MapOf("k" :> "v1")

\* the operations that open files
FileOps == {"DecodeAllFiles", "DecodeEachFile", "DecodeDirectory", "DecodeFile"}

\* C21: every file opened by DecodeAllFiles, DecodeEachFile, DecodeDirectory
\* or DecodeFile is closed when the call has returned, whatever it returned:
\* nil, the error of opening a later file, a read or decode error; and
\* nothing is closed that was not opened.
C21_FilesClosedOnReturn ==
    (op \in FileOps /\ Done) =>
        /\ Range(opened) \subseteq closed
        /\ closed \subseteq Range(opened)

\* the second file cannot be opened: the first one is closed all the same
C21_Witness ==
    /\ op = "DecodeDirectory"
    /\ Done
    /\ result.err = "ErrOpen"
    /\ Len(opened) = 1
    /\ fileIdx = 1
    /\ closed = {opened[1]}

\* C22: when DecodeAllFiles or DecodeEachFile returns because a document
\* failed to decode, the error it returns names the file that holds the
\* document.
C22_DecodeErrorNamesFile ==
    (op \in {"DecodeAllFiles", "DecodeEachFile"} /\ Done /\ result.err = "ErrDecode") =>
        /\ decoded # <<>>
        /\ result.epath = decoded[Len(decoded)].doc.name.src

\* C23: after DecodeAny of a document of an unregistered kind with
\* MutateLabels(overrides) in the chain, the labels read from the returned
\* unstructured object hold every override key with its value (that of the
\* last MutateLabels that writes the key).
C23_MutateLabelsOnUnstructured ==
    (op = "DecodeAny" /\ Done /\ result.err = "nil"
     /\ result.obj.rep = "unstructured") =>
        \A i \in 1..Len(patches) :
            patches[i].fn = "MutateLabels" =>
                \A k \in DOMAIN patches[i].kv :
                    /\ ~result.obj.labels.isNil
                    /\ k \in DOMAIN result.obj.labels.m
                    /\ result.obj.labels.m[k] = patches[Max(WritersOf(k))].kv[k]

\* C24: DecodeEachFile passes every object to the handler before the next
\* document of the same file is decoded: the i-th invocation happens when
\* exactly i documents have been decoded, and when a document fails to
\* decode the handler has been invoked on every document decoded before it.
C24_EachFileDispatchesImmediately ==
    op = "DecodeEachFile" =>
        /\ \A i \in 1..Len(hcalls) : hcalls[i].ndecoded = i
        /\ (Done /\ result.err = "ErrDecode") => Len(hcalls) = Len(decoded) - 1

\* the documents of the log that were decoded into an object
Resolved == SelectSeq(decoded, LAMBDA e : e.doc.kind # "Malformed")

\* C25: in DecodeEach and DecodeAll a document that fails to decode is the
\* last one read, no patch is applied to it and the operation returns its
\* error; after a read error or a decode failure nothing more is read, no
\* object is returned, and in DecodeEach the handler has been invoked exactly
\* once on each of the documents before the failure, in order.
C25_ReadOrDecodeErrorAborts ==
    op \in {"DecodeEach", "DecodeAll"} =>
        /\ \A i \in 1..Len(decoded) :
              decoded[i].doc.kind = "Malformed" =>
                  /\ i = Len(decoded)
                  /\ decoded[i].applied = <<>>
                  /\ Done
                  /\ result.err = "ErrDecode"
        /\ (Done /\ result.err \in {"ErrRead", "ErrDecode"}) =>
              /\ Manifest \notin eof
              /\ result.isNil
              /\ result.objs = <<>>
              /\ result.err = "ErrRead" => Resolved = decoded
              /\ result.err = "ErrDecode" =>
                    Resolved = SubSeq(decoded, 1, Len(decoded) - 1)
              /\ op = "DecodeEach" =>
                    /\ Len(hcalls) = Len(Resolved)
                    /\ \A i \in 1..Len(hcalls) :
                          /\ hcalls[i].ndecoded = i
                          /\ hcalls[i].obj.rep # "nil" =>
                                hcalls[i].obj.name = decoded[i].doc.name

C25_Witness ==
    /\ op = "DecodeEach"
    /\ Done
    /\ result.err = "ErrDecode"
    /\ patches = <<L1>>
    /\ Len(decoded) = 3
    /\ decoded[3].doc.kind = "Malformed"
    /\ decoded[3].applied = <<>>
    /\ decoded[2].applied = <<1>>
    /\ NamesOf(HandledObjs) = SubSeq(DocNames(decoded), 1, 2)

\* C26: DecodeAny attempts the fallback to the generic representation
\* exactly when the deserializer reports the kind as not registered; on any
\* other error of the deserializer it returns that error and no object,
\* applies no patch and does not attempt the fallback.
C26_OnlyNotRegisteredFallsBack ==
    (op = "DecodeAny" /\ Done /\ decoded # <<>>) =>
        LET e == decoded[1]
            reg == k8sDecoder(e.doc)
        IN /\ e.fallback <=> reg.err = "ErrNotRegistered"
           /\ reg.err \notin {"nil", "ErrNotRegistered"} =>
                 /\ result.err = reg.err
                 /\ result.obj = NilObj
                 /\ e.applied = <<>>
                 /\ ~e.fallback

\* a ConfigMap document that does not fit v1.ConfigMap would decode into an
\* unstructured object; DecodeAny returns the deserializer's error
C26_Witness ==
    /\ op = "DecodeAny"
    /\ Done
    /\ patches = <<L1>>
    /\ decoded # <<>>
    /\ decoded[1].doc.kind = "Mismatch"
    /\ UnmarshalUnstructured(decoded[1].doc).err = "nil"
    /\ result.err = "ErrMismatch"
    /\ result.obj = NilObj
    /\ decoded[1].applied = <<>>
    /\ ~decoded[1].fallback

\* C27: DecodeAny never returns a nil error together with a nil object, so
\* a DecodeAll that succeeds has no nil entry in its result and DecodeEach
\* never invokes the handler with a nil object.
C27_NoSuccessWithoutObject ==
    /\ (op = "DecodeAny" /\ Done /\ result.err = "nil") => result.obj.rep # "nil"
    /\ (op = "DecodeAll" /\ Done /\ result.err = "nil") =>
          \A i \in 1..Len(result.objs) : result.objs[i].rep # "nil"
    /\ op = "DecodeEach" =>
          \A i \in 1..Len(hcalls) : hcalls[i].obj.rep # "nil"

\* C28: MutateAnnotations leaves the labels of the object as they were,
\* also when the object has no annotation map: nothing but the annotation
\* map of the object is written.
C28_MutateAnnotationsKeepsLabels ==
    Patched("MutateAnnotations") =>
        /\ patched.obj.labels = target.labels
        /\ [patched.obj EXCEPT !.annotations = target.annotations] = target

\* C29: DecodeEach and DecodeEachFile never stop because the context is
\* cancelled, before the call or while it runs: an error they return is one
\* of resolving, opening, reading or decoding the input, and a call that
\* returns nil has read every reader to its end and invoked the handler once
\* per document decoded, in order, each time with the caller's context.
C29_CancellationIsAdvisory ==
    (op \in {"DecodeEach", "DecodeEachFile"} /\ ctx = "cancelled") =>
        /\ \A i \in 1..Len(hcalls) :
              /\ hcalls[i].ctx \in {"live", "cancelled"}
              /\ \A j \in 1..Len(hcalls) :
                    (i < j /\ hcalls[i].ctx = "cancelled") => hcalls[j].ctx = "cancelled"
        /\ Done =>
              result.err \in {"nil", "ErrRead", "ErrDecode", "ErrOpen",
                              "ErrPrefixNotFound", "ErrNotDirectory"}
        /\ (Done /\ result.err = "nil") =>
              /\ op = "DecodeEach" => Manifest \in eof
              /\ op = "DecodeEachFile" =>
                    (fileIdx = Len(files) /\ Range(files) \subseteq eof)
              /\ Len(hcalls) = Len(decoded)
              /\ \A i \in 1..Len(hcalls) :
                    hcalls[i].obj.rep # "nil" =>
                        hcalls[i].obj.name = decoded[i].doc.name

\* the context is cancelled after the first of three handler invocations,
\* the last two of which see it cancelled
C29_Witness ==
    /\ op = "DecodeEachFile"
    /\ Done
    /\ ctx = "cancelled"
    /\ result.err = "nil"
    /\ Len(files) = 2
    /\ Len(hcalls) = 3
    /\ hcalls[1].ctx = "live"
    /\ hcalls[2].ctx = "cancelled"
    /\ hcalls[3].ctx = "cancelled"
    /\ NamesOf(HandledObjs) = DocNames(decoded)

\* C30: the directory helpers of package yaml process their files in
\* ascending path order without duplicates, their listResourceFiles result
\* being sorted ascending by path string whatever the extensions of the
\* files, and stop at the first file that fails: no later file is processed.
C30_YamlDirectoryAscending ==
    (op \in YamlOps /\ pc \in {"yamlLoop", "done"}) =>
        /\ Sorted(files)
        /\ Cardinality(Range(files)) = Len(files)
        /\ opened = SubSeq(files, 1, Len(opened))
        /\ Sorted(opened)
        /\ (Done /\ result.err \notin {"nil", "ErrNoFiles"}) =>
              /\ Len(opened) = fileIdx + 1
              /\ result.epath = opened[Len(opened)]

====
